---- MODULE Spec2Model ----
(***************************************************************************)
(* State-machine model of the Circle Mint testing harness:                 *)
(*   CircleMintClient        src/src/circle-mint-client.ts                 *)
(*   ExpressRouteTester      src/src/express-route.ts                      *)
(*   AccountAndTransferTester src/src/account-and-transfers.ts             *)
(*   CircleMintTester        src/src/demo-transfers.ts                     *)
(*   dashboard server        src/unnamed/part_002                          *)
(*                                                                         *)
(* Every async method is a frame on a call stack; one action runs a frame  *)
(* from one await to the next.  A call of request() is one step: the HTTPS *)
(* check, the fetch (recorded in net together with the remote's answer)    *)
(* and the answer's conversion into a return value or an Error.            *)
(***************************************************************************)
EXTENDS Integers, Sequences, FiniteSets, TLC

VARIABLES
  baseUrl,      \* config.baseUrl, read by the client's constructor
  apiKey,       \* config.apiKey, read by the client's constructor ('' when not set)
  stack,        \* call stack of async frames [fn, pc, l]; the last is running
  ret,          \* completion handed to the awaiting frame (or to the caller of the bottom frame)
  net,          \* exchanges with the remote API of the current top-level call, in order
  nerr,         \* Error objects constructed during the current top-level call
  nuuid,        \* crypto.randomUUID() values drawn during the current top-level call
  now,          \* Date.now()
  remoteAddrs,  \* business deposit addresses the remote holds
  calls,        \* top-level calls started so far
  prev,         \* the previous top-level call: its frame and completion
  timers,       \* setTimeout delays elapsed in the current top-level call: for each, the
                \* number of exchanges completed before it
  sseClients,   \* dashboard: the listener array, entries {id, res}
  streams,      \* dashboard: what has been written to each event-stream response
  conns,        \* the GET /api/events connections made so far: open or closed, and the
                \* number of webhooks received before they opened and before they closed
  hooks,        \* the POST /webhooks requests received so far, with their answers
  console,      \* dashboard: whose capture functions console.log/error/warn are (0: the
                \* original functions)
  runs          \* dashboard: the calls of run() so far

clientVars == <<baseUrl, apiKey, stack, ret, net, nerr, nuuid, now, remoteAddrs, calls, prev, timers>>
serverVars == <<sseClients, streams, conns, hooks, console, runs>>
vars == <<clientVars, serverVars>>

(***************************************************************************)
(* Bounds                                                                  *)
(***************************************************************************)
MaxCalls == 2      \* top-level calls in one behaviour
MaxAddrs == 2      \* deposit addresses the remote holds initially
MaxNow == 1        \* clock ticks observed in one behaviour
MaxConns == 3      \* event-stream connections made in one behaviour
MaxHooks == 3      \* webhooks received in one behaviour
MaxRuns == 2       \* dashboard API requests in one behaviour
MaxLines == 2      \* console lines one dashboard operation writes

(***************************************************************************)
(* Strings                                                                 *)
(***************************************************************************)
\* String.prototype.includes
Includes(s, sub) ==
  \E i \in 1..(Len(s) - Len(sub) + 1) : SubSeq(s, i, i + Len(sub) - 1) = sub

\* String.prototype.startsWith
StartsWith(s, p) == Len(s) >= Len(p) /\ SubSeq(s, 1, Len(p)) = p

EndsWith(s, p) == Len(s) >= Len(p) /\ SubSeq(s, Len(s) - Len(p) + 1, Len(s)) = p

(***************************************************************************)
(* Values                                                                  *)
(***************************************************************************)
Undefined == "undefined"

\* !s for a value that is a string or undefined
Falsy(s) == s = Undefined \/ s = ""

\* a JSON object of the remote API, with the fields the harness reads
NoRec == [id |-> Undefined, chain |-> Undefined, address |-> Undefined,
          trackingRef |-> Undefined, accountNumber |-> Undefined,
          receiptAddressId |-> Undefined]

\* a value returned by a method: a response body {data: object}, a response
\* body {data: [..]}, null, undefined (void) or the built-in chain table
Json(d) == [tag |-> "json", data |-> d, items |-> <<>>]
JsonList(xs) == [tag |-> "json", data |-> NoRec, items |-> xs]
Null == [tag |-> "null", data |-> NoRec, items |-> <<>>]
Void == [tag |-> "void", data |-> NoRec, items |-> <<>>]
ChainTable == [tag |-> "chains", data |-> NoRec, items |-> <<>>]

\* an Error object: its identity and its message
NoErr == [id |-> 0, message |-> ""]
NewError(n, msg) == [id |-> n, message |-> msg]

NoRet == [kind |-> "none", val |-> Void, err |-> NoErr]
Ok(v) == [kind |-> "ok", val |-> v, err |-> NoErr]
Thrown(e) == [kind |-> "throw", val |-> Void, err |-> e]

(***************************************************************************)
(* The remote API, as far as the harness observes it                       *)
(***************************************************************************)
Chains == {"ETH", "MATIC"}

AddrAt(i, c) == [NoRec EXCEPT !.id = "da" \o ToString(i), !.chain = c,
                              !.address = "0x" \o ToString(i)]

Bank(i) == [NoRec EXCEPT !.id = "bank" \o ToString(i)]
BankLists == {<<>>, <<Bank(1)>>, <<Bank(2), Bank(1)>>}

Recipient(i, addr, c) == [NoRec EXCEPT !.id = "rec" \o ToString(i), !.address = addr, !.chain = c]
RecipientLists == {<<>>, <<Recipient(1, "0x1", "ETH")>>,
                   <<Recipient(2, "0x1", "MATIC"), Recipient(1, "0x1", "ETH")>>}

Route(i, addrId) == [NoRec EXCEPT !.id = "route" \o ToString(i), !.receiptAddressId = addrId]
RouteLists == {<<>>, <<Route(1, "da9")>>, <<Route(1, "da9"), Route(2, "da1")>>}

WireInstructions ==
  { [NoRec EXCEPT !.trackingRef = t, !.accountNumber = a] :
      t \in {"CIR3", "", Undefined}, a \in {"123456", Undefined} }

\* non-2xx answers: <<status, JSON text of the body>>
ErrorResponses ==
  { <<404, "{\"message\":\"Not Found\"}">>,
    <<409, "{\"code\":2023,\"message\":\"Duplicate\"}">>,
    <<409, "{\"message\":\"Entity already exists\"}">>,
    <<400, "{\"message\":\"Invalid entity\"}">>,
    <<422, "{\"message\":\"Unprocessable\"}">>,
    <<500, "{\"message\":\"Upstream returned 404\"}">> }

\* the non-2xx answers of an endpoint: all of them where the caller reads the
\* error's message, one where every error is handled alike
ErrorAnswers(endpoint) ==
  IF \/ endpoint \in {"/v1/mocks/payments/blockchain", "/v1/businessAccount/transfers",
                      "/v1/businessAccount/payouts",
                      "/v1/businessAccount/wallets/addresses/recipient"}
     \/ EndsWith(endpoint, "/instructions")
  THEN {r \in ErrorResponses : r[1] = 404}
  ELSE ErrorResponses

\* 2xx bodies by endpoint
OkBodies(method, endpoint, body) ==
  IF endpoint = "/v1/businessAccount/banks/wires"
  THEN IF method = "POST" THEN {Json(Bank(3)), Json(NoRec)}
       ELSE {JsonList(xs) : xs \in BankLists}
  ELSE IF endpoint = "/v1/businessAccount/wallets/addresses/deposit"
  THEN IF method = "POST"
       THEN {Json(AddrAt(Len(remoteAddrs) + 1, body.chain)), Json(NoRec)}
       ELSE {JsonList(remoteAddrs)}
  ELSE IF EndsWith(endpoint, "/instructions")
  THEN {Json(d) : d \in WireInstructions}
  ELSE IF endpoint = "/v1/businessAccount/expressRoute"
  THEN IF method = "POST" THEN {Json(Route(3, body.receiptAddressId))}
       ELSE {JsonList(xs) : xs \in RouteLists}
  ELSE IF endpoint = "/v1/businessAccount/wallets/addresses/recipient"
  THEN IF method = "POST"
       THEN {Json(Recipient(3, IF "address" \in DOMAIN body THEN body.address ELSE Undefined,
                            body.chain)), Json(NoRec)}
       ELSE {JsonList(xs) : xs \in RecipientLists}
  ELSE IF endpoint = "/v1/addressBook/recipients" /\ method = "POST"
  THEN {Json([NoRec EXCEPT !.id = "ab1"]), Json(NoRec)}
  ELSE IF endpoint = "/v1/balances" \/ StartsWith(endpoint, "/v1/paymentIntents")
  THEN {Json([NoRec EXCEPT !.id = "primary"])}
  ELSE IF endpoint = "/v1/businessAccount/balances" \/ StartsWith(endpoint, "/v1/deposits")
  THEN {Json([NoRec EXCEPT !.id = "secondary"])}
  ELSE {Json([NoRec EXCEPT !.id = "obj1"])}

(***************************************************************************)
(* CircleMintClient.request                                                *)
(***************************************************************************)
HttpsMsg == "Circle APIs require HTTPS. All requests must be made over HTTPS."
FetchFailedMsg == "fetch failed"

ApiMsg(status, payload) ==
  "Circle Mint API Error (" \o ToString(status) \o "): " \o payload

\* the guard of request: url.startsWith('https://')
HttpsOk(url) == StartsWith(url, "https://")

\* the outcomes of request(endpoint, {method, body}): whether fetch was
\* called, and the value returned or the message of the Error thrown
request(method, endpoint, body) ==
  LET req == [method |-> method, endpoint |-> endpoint, body |-> body] IN
  IF ~HttpsOk(baseUrl \o endpoint)
  THEN {[sent |-> FALSE, req |-> req, ok |-> FALSE, val |-> Void, message |-> HttpsMsg]}
  ELSE {[sent |-> TRUE, req |-> req, ok |-> TRUE, val |-> v, message |-> ""] :
           v \in OkBodies(method, endpoint, body)}
       \cup {[sent |-> TRUE, req |-> req, ok |-> FALSE, val |-> Void,
              message |-> ApiMsg(r[1], r[2])] : r \in ErrorAnswers(endpoint)}
       \cup {[sent |-> TRUE, req |-> req, ok |-> FALSE, val |-> Void,
              message |-> FetchFailedMsg]}

NoBody == [none |-> TRUE]
Get(endpoint) == request("GET", endpoint, NoBody)
Post(endpoint, body) == request("POST", endpoint, body)
Delete(endpoint) == request("DELETE", endpoint, NoBody)

\* the exchange an outcome leaves on the wire
Exchange(o) == [method |-> o.req.method, endpoint |-> o.req.endpoint, body |-> o.req.body,
                authorization |-> "Bearer " \o apiKey,
                ok |-> o.ok, val |-> o.val, message |-> o.message]

\* the remote's state after an outcome
RemoteAfter(o) ==
  IF o.sent /\ o.ok /\ o.req.method = "POST"
     /\ o.req.endpoint = "/v1/businessAccount/wallets/addresses/deposit"
     /\ o.val.data.id # Undefined
  THEN Append(remoteAddrs, o.val.data)
  ELSE remoteAddrs

\* the effect of one request() with outcome o, plus `more` Errors constructed
\* by the caller in the same step
Wire(o, more) ==
  /\ net' = IF o.sent THEN Append(net, Exchange(o)) ELSE net
  /\ remoteAddrs' = RemoteAfter(o)
  /\ nerr' = nerr + (IF o.ok THEN 0 ELSE 1) + more

\* the Error request() throws in outcome o
ErrOf(o) == NewError(nerr + 1, o.message)

(***************************************************************************)
(* Frames                                                                  *)
(***************************************************************************)
Frame(fn, pc, l) == [fn |-> fn, pc |-> pc, l |-> l]
Running == stack # <<>> /\ stack[Len(stack)].pc # "done"
Top == stack[Len(stack)]
Idle == stack = <<>> \/ (Len(stack) = 1 /\ stack[1].pc = "done")
At(fn, pc) == stack # <<>> /\ Top.fn = fn /\ Top.pc = pc

\* the bottom frame has completed
Done(fn) == Len(stack) = 1 /\ stack[1].fn = fn /\ stack[1].pc = "done"

\* the running frame moves on to pc with locals l
Goto(pc, l) ==
  /\ stack' = [stack EXCEPT ![Len(stack)] = Frame(Top.fn, pc, l)]
  /\ ret' = NoRet

\* the running frame completes with r; the bottom frame is kept for inspection
Complete(l, r) ==
  /\ stack' = IF Len(stack) = 1 THEN <<Frame(Top.fn, "done", l)>>
              ELSE SubSeq(stack, 1, Len(stack) - 1)
  /\ ret' = r

Return(l, v) == Complete(l, Ok(v))
Throw(l, e) == Complete(l, Thrown(e))

\* the running frame awaits a call of fn, to resume at pc
Await(pc, l, fn, fpc, fl) ==
  /\ stack' = Append([stack EXCEPT ![Len(stack)] = Frame(Top.fn, pc, l)], Frame(fn, fpc, fl))
  /\ ret' = NoRet

\* the idempotency keys of the create requests among the exchanges n, in order
RECURSIVE KeysOf(_)
KeysOf(n) ==
  IF n = <<>> THEN <<>>
  ELSE LET x == n[Len(n)]
           rest == KeysOf(SubSeq(n, 1, Len(n) - 1))
       IN IF x.method = "POST" /\ "idempotencyKey" \in DOMAIN x.body
          THEN Append(rest, x.body.idempotencyKey)
          ELSE rest

\* a top-level call from the CLI, the dashboard or a test
Start(fn, pc, l) ==
  /\ Idle
  /\ calls' = calls + 1
  /\ prev' = IF stack = <<>> THEN prev
             ELSE [fn |-> stack[1].fn, l |-> stack[1].l, ret |-> ret, keys |-> KeysOf(net),
                   net |-> net]
  /\ stack' = <<Frame(fn, pc, l)>>
  /\ ret' = NoRet
  /\ net' = <<>>
  /\ nerr' = 0
  /\ nuuid' = 0
  /\ timers' = <<>>
  /\ UNCHANGED <<baseUrl, apiKey, now, remoteAddrs, serverVars>>

Same == UNCHANGED <<baseUrl, apiKey, calls, prev, nuuid, now, timers, serverVars>>
SameButUuid == UNCHANGED <<baseUrl, apiKey, calls, prev, now, timers, serverVars>>

\* a ?? b
Nullish(a, b) == IF a = Undefined THEN b ELSE a

\* crypto.randomUUID(): the k-th value drawn in this call
Uuid(k) == "uuid-" \o ToString(calls) \o "-" \o ToString(k)

(***************************************************************************)
(* CircleMintClient: one request per method                                *)
(***************************************************************************)
createAddressBookRecipient(params) == Post("/v1/addressBook/recipients", params)
listAddressBookRecipients == Get("/v1/addressBook/recipients")
deleteAddressBookRecipient(id) == Delete("/v1/addressBook/recipients/" \o id)
createPayout(params) == Post("/v1/payouts", params)
getPayout(payoutId) == Get("/v1/payouts/" \o payoutId)
createBusinessPayout(params) == Post("/v1/businessAccount/payouts", params)
getBusinessPayout(payoutId) == Get("/v1/businessAccount/payouts/" \o payoutId)
createWireBankAccount(params) == Post("/v1/businessAccount/banks/wires", params)
listWireBankAccounts == Get("/v1/businessAccount/banks/wires")
createMockWirePayment(params) == Post("/v1/mocks/payments/wire", params)
getWireBankAccountInstructions(id) ==
  Get("/v1/businessAccount/banks/wires/" \o id \o "/instructions")
createBusinessTransfer(params) == Post("/v1/businessAccount/transfers", params)
getBusinessTransfer(id) == Get("/v1/businessAccount/transfers/" \o id)
createRecipientAddress(params) ==
  Post("/v1/businessAccount/wallets/addresses/recipient", params)
listRecipientAddresses == Get("/v1/businessAccount/wallets/addresses/recipient")
getRecipientAddress(id) == Get("/v1/businessAccount/wallets/addresses/recipient/" \o id)
createDepositAddress(params) == Post("/v1/businessAccount/wallets/addresses/deposit", params)
listBusinessDepositAddresses == Get("/v1/businessAccount/wallets/addresses/deposit")
createMockBlockchainDeposit(params) == Post("/v1/mocks/payments/blockchain", params)
createExpressRoute(params) == Post("/v1/businessAccount/expressRoute", params)
createSubscription(endpoint) ==
  Post("/v1/notifications/subscriptions", [endpoint |-> endpoint])
listSubscriptions == Get("/v1/notifications/subscriptions")
deleteSubscription(id) == Delete("/v1/notifications/subscriptions/" \o id)
listExpressRoutes == Get("/v1/businessAccount/expressRoute")
getExpressRoute(id) == Get("/v1/businessAccount/expressRoute/" \o id)

\* URLSearchParams.toString() of the pairs whose value is truthy
QueryString(pairs) ==
  LET kept == SelectSeq(pairs, LAMBDA p : ~Falsy(p[2]))
      Join[i \in 0..Len(kept)] ==
        IF i = 0 THEN ""
        ELSE Join[i - 1] \o (IF i = 1 THEN "" ELSE "&") \o kept[i][1] \o "=" \o kept[i][2]
  IN Join[Len(kept)]

\* query ? `${path}?${query}` : path
WithQuery(path, query) == IF query = "" THEN path ELSE path \o "?" \o query

listPayouts(params) ==
  Get(WithQuery("/v1/payouts",
        QueryString(<<<<"accountId", params.accountId>>, <<"status", params.status>>>>)))
listBusinessPayouts(params) ==
  Get(WithQuery("/v1/businessAccount/payouts", QueryString(<<<<"status", params.status>>>>)))

\* the arguments the single-request methods are called with from outside
SimpleCalls ==
  { "createAddressBookRecipient", "listAddressBookRecipients", "deleteAddressBookRecipient",
    "createPayout", "getPayout", "listPayouts", "createBusinessPayout", "getBusinessPayout",
    "listBusinessPayouts", "createWireBankAccount", "listWireBankAccounts",
    "createMockWirePayment", "getWireBankAccountInstructions", "createBusinessTransfer",
    "getBusinessTransfer", "createRecipientAddress", "listRecipientAddresses",
    "getRecipientAddress", "createDepositAddress", "listBusinessDepositAddresses",
    "createMockBlockchainDeposit", "createExpressRoute", "createSubscription",
    "listSubscriptions", "deleteSubscription", "listExpressRoutes", "getExpressRoute" }

SampleBody == [idempotencyKey |-> "key", chain |-> "ETH", receiptAddressId |-> "da1"]
NoParams == [accountId |-> Undefined, blockchain |-> Undefined, status |-> Undefined]
ParamSets == {NoParams, [NoParams EXCEPT !.blockchain = "ETH"],
              [NoParams EXCEPT !.accountId = "acc1", !.status = "pending"]}

SimpleOutcomes(name, params) ==
  CASE name = "createAddressBookRecipient" -> createAddressBookRecipient(SampleBody)
    [] name = "listAddressBookRecipients" -> listAddressBookRecipients
    [] name = "deleteAddressBookRecipient" -> deleteAddressBookRecipient("ab1")
    [] name = "createPayout" -> createPayout(SampleBody)
    [] name = "getPayout" -> getPayout("p1")
    [] name = "listPayouts" -> listPayouts(params)
    [] name = "createBusinessPayout" -> createBusinessPayout(SampleBody)
    [] name = "getBusinessPayout" -> getBusinessPayout("p1")
    [] name = "listBusinessPayouts" -> listBusinessPayouts(params)
    [] name = "createWireBankAccount" -> createWireBankAccount(SampleBody)
    [] name = "listWireBankAccounts" -> listWireBankAccounts
    [] name = "createMockWirePayment" -> createMockWirePayment(SampleBody)
    [] name = "getWireBankAccountInstructions" -> getWireBankAccountInstructions("bank1")
    [] name = "createBusinessTransfer" -> createBusinessTransfer(SampleBody)
    [] name = "getBusinessTransfer" -> getBusinessTransfer("t1")
    [] name = "createRecipientAddress" -> createRecipientAddress(SampleBody)
    [] name = "listRecipientAddresses" -> listRecipientAddresses
    [] name = "getRecipientAddress" -> getRecipientAddress("r1")
    [] name = "createDepositAddress" -> createDepositAddress(SampleBody)
    [] name = "listBusinessDepositAddresses" -> listBusinessDepositAddresses
    [] name = "createMockBlockchainDeposit" -> createMockBlockchainDeposit(SampleBody)
    [] name = "createExpressRoute" -> createExpressRoute(SampleBody)
    [] name = "createSubscription" -> createSubscription("https://hook.example/webhooks")
    [] name = "listSubscriptions" -> listSubscriptions
    [] name = "deleteSubscription" -> deleteSubscription("s1")
    [] name = "listExpressRoutes" -> listExpressRoutes
    [] OTHER -> getExpressRoute("x1")

\* a single-request method: return this.request(...)
simple_call ==
  /\ calls = 0
  /\ \E name \in SimpleCalls, params \in ParamSets :
       /\ params # NoParams => name \in {"listPayouts", "listBusinessPayouts"}
       /\ Start(name, "request", [params |-> params, error |-> NoErr])

simple_request ==
  /\ Running /\ Top.fn \in SimpleCalls /\ Top.pc = "request"
  /\ \E o \in SimpleOutcomes(Top.fn, Top.l.params) :
       /\ Wire(o, 0)
       /\ IF o.ok THEN Return(Top.l, o.val) ELSE Throw(Top.l, ErrOf(o))
  /\ Same

(***************************************************************************)
(* CircleMintClient: methods with a secondary endpoint                     *)
(***************************************************************************)
\* error.message.includes('404')
IsNotFound(error) == Includes(error.message, "404")

\* getBalance, inner catch: throw error
getBalanceRethrownFallback(error, fallbackError) == fallbackError
getBalanceRethrown(error, fallbackError) == error

\* getBalance, outer catch: the business account balance endpoint
getBalanceSameEndpoint == "/v1/balances"
getBalanceSecondary == "/v1/businessAccount/balances"

getBalance_call == calls = 0 /\ Start("getBalance", "primary", [params |-> NoParams, error |-> NoErr])

getBalance_primary ==
  /\ At("getBalance", "primary")
  /\ \E o \in Get("/v1/balances") :
       /\ Wire(o, 0)
       /\ IF o.ok THEN Return(Top.l, o.val)
          ELSE Goto("secondary", [Top.l EXCEPT !.error = ErrOf(o)])
  /\ Same

getBalance_secondary ==
  /\ At("getBalance", "secondary")
  /\ \E o \in Get(getBalanceSecondary) :
       /\ Wire(o, 0)
       /\ IF o.ok THEN Return(Top.l, o.val)
          ELSE Throw(Top.l, getBalanceRethrown(Top.l.error, ErrOf(o)))
  /\ Same

\* listDepositAddresses, inner catch: throw new Error(...)
listDepositAddressesFailure(error) ==
  "Deposit addresses endpoint not found. This may require account setup or "
  \o "the Crypto Deposits API may not be enabled for your account. "
  \o "Original error: " \o error.message

listDepositAddressesQuery(params) ==
  QueryString(<<<<"accountId", params.accountId>>, <<"blockchain", params.blockchain>>>>)

listDepositAddresses_call ==
  /\ calls = 0
  /\ \E params \in ParamSets :
       Start("listDepositAddresses", "primary", [params |-> params, error |-> NoErr])

listDepositAddresses_primary ==
  /\ At("listDepositAddresses", "primary")
  /\ \E o \in Get(WithQuery("/v1/paymentIntents", listDepositAddressesQuery(Top.l.params))) :
       /\ Wire(o, 0)
       /\ IF o.ok THEN Return(Top.l, o.val)
          ELSE IF IsNotFound(ErrOf(o))
               THEN Goto("secondary", [Top.l EXCEPT !.error = ErrOf(o)])
               ELSE Throw([Top.l EXCEPT !.error = ErrOf(o)], ErrOf(o))
  /\ Same

listDepositAddresses_secondary ==
  /\ At("listDepositAddresses", "secondary")
  /\ \E o \in Get(WithQuery("/v1/deposits/addresses", listDepositAddressesQuery(Top.l.params))) :
       IF o.ok THEN Wire(o, 0) /\ Return(Top.l, o.val)
       ELSE /\ Wire(o, 1)
            /\ Throw(Top.l, NewError(nerr + 2, listDepositAddressesFailure(Top.l.error)))
  /\ Same

\* getDeposit, inner catch: throw error
getDepositRethrown(error, fallbackError) == error

getDeposit_call ==
  /\ calls = 0
  /\ Start("getDeposit", "primary", [params |-> NoParams, depositId |-> "dep1", error |-> NoErr])

getDeposit_primary ==
  /\ At("getDeposit", "primary")
  /\ \E o \in Get("/v1/paymentIntents/" \o Top.l.depositId) :
       /\ Wire(o, 0)
       /\ IF o.ok THEN Return(Top.l, o.val)
          ELSE IF IsNotFound(ErrOf(o))
               THEN Goto("secondary", [Top.l EXCEPT !.error = ErrOf(o)])
               ELSE Throw([Top.l EXCEPT !.error = ErrOf(o)], ErrOf(o))
  /\ Same

getDeposit_secondary ==
  /\ At("getDeposit", "secondary")
  /\ \E o \in Get("/v1/deposits/" \o Top.l.depositId) :
       /\ Wire(o, 0)
       /\ IF o.ok THEN Return(Top.l, o.val)
          ELSE Throw(Top.l, getDepositRethrown(Top.l.error, ErrOf(o)))
  /\ Same

\* listDeposits, inner catch: throw new Error(...)
listDepositsFailure(error) ==
  "Deposits endpoint not found. This may require account setup or "
  \o "the Crypto Deposits API may not be enabled for your account. "
  \o "Original error: " \o error.message

listDepositsQuery(params) ==
  QueryString(<<<<"accountId", params.accountId>>, <<"blockchain", params.blockchain>>,
                <<"status", params.status>>>>)

listDeposits_call ==
  /\ calls = 0
  /\ \E params \in ParamSets :
       Start("listDeposits", "primary", [params |-> params, error |-> NoErr])

listDeposits_primary ==
  /\ At("listDeposits", "primary")
  /\ \E o \in Get(WithQuery("/v1/paymentIntents", listDepositsQuery(Top.l.params))) :
       /\ Wire(o, 0)
       /\ IF o.ok THEN Return(Top.l, o.val)
          ELSE IF IsNotFound(ErrOf(o))
               THEN Goto("secondary", [Top.l EXCEPT !.error = ErrOf(o)])
               ELSE Throw([Top.l EXCEPT !.error = ErrOf(o)], ErrOf(o))
  /\ Same

listDeposits_secondary ==
  /\ At("listDeposits", "secondary")
  /\ \E o \in Get(WithQuery("/v1/deposits", listDepositsQuery(Top.l.params))) :
       IF o.ok THEN Wire(o, 0) /\ Return(Top.l, o.val)
       ELSE /\ Wire(o, 1)
            /\ Throw(Top.l, NewError(nerr + 2, listDepositsFailure(Top.l.error)))
  /\ Same

\* getSupportedChains: catch { return {chains, currencies} }
getSupportedChains_call ==
  calls = 0 /\ Start("getSupportedChains", "config", [params |-> NoParams, error |-> NoErr])

getSupportedChains_config ==
  /\ At("getSupportedChains", "config")
  /\ \E o \in Get("/v1/config") :
       /\ Wire(o, 0)
       /\ IF o.ok THEN Return(Top.l, o.val)
          ELSE Return([Top.l EXCEPT !.error = ErrOf(o)], ChainTable)
  /\ Same

\* createDepositAddress (legacy, {idempotencyKey, blockchain}): the first
\* request and the condition of the fallback are outside the retained
\* source; they follow the sibling methods (primary endpoint, then on a
\* message containing '404' the legacy-named endpoint)
createDepositAddressLegacy_call ==
  /\ calls = 0
  /\ Start("createDepositAddressLegacy", "primary",
           [params |-> NoParams, body |-> [idempotencyKey |-> "test-0", blockchain |-> "ETH"],
            error |-> NoErr])

createDepositAddressLegacy_primary ==
  /\ At("createDepositAddressLegacy", "primary")
  /\ \E o \in Post("/v1/paymentIntents", Top.l.body) :
       /\ Wire(o, 0)
       /\ IF o.ok THEN Return(Top.l, o.val)
          ELSE IF IsNotFound(ErrOf(o))
               THEN Goto("secondary", [Top.l EXCEPT !.error = ErrOf(o)])
               ELSE Throw([Top.l EXCEPT !.error = ErrOf(o)], ErrOf(o))
  /\ Same

\* createDepositAddress (legacy), inner catch: throw new Error(...)
createDepositAddressLegacyFailure(error) ==
  LET errorMsg ==
        IF Includes(error.message, "422")
        THEN "Invalid request format. PaymentIntents may require additional fields like amount or currency."
        ELSE error.message
  IN "Deposit address creation failed: " \o errorMsg \o ". "
     \o "This endpoint may require account setup or additional parameters. "
     \o "Common blockchain formats: ETH, MATIC, AVAX, etc."

createDepositAddressLegacy_secondary ==
  /\ At("createDepositAddressLegacy", "secondary")
  /\ \E o \in Post("/v1/deposits/addresses", Top.l.body) :
       IF o.ok THEN Wire(o, 0) /\ Return(Top.l, o.val)
       ELSE /\ Wire(o, 1)
            /\ Throw(Top.l, NewError(nerr + 2, createDepositAddressLegacyFailure(Top.l.error)))
  /\ Same

(***************************************************************************)
(* ExpressRouteTester                                                      *)
(***************************************************************************)
BillingDetails == [name |-> "Satoshi Nakamoto", city |-> "Boston", country |-> "US",
                   line1 |-> "100 Money Street", postalCode |-> "01234",
                   line2 |-> "Suite 1", district |-> "MA"]
BankAddress == [country |-> "US", bankName |-> "SAN FRANCISCO", city |-> "SAN FRANCISCO",
                line1 |-> "100 Money Street", line2 |-> "Suite 1", district |-> "CA"]

IsBankConflictOnlyCode(error) == Includes(error.message, "2023")

\* linkBankAccount: the condition of the fallback to listWireBankAccounts
IsBankConflict(error) ==
  \/ Includes(error.message, "already")
  \/ Includes(error.message, "2023")
  \/ Includes(error.message, "400")

\* linkReceiptAddress, initiateMockDeposit, createExpressRoute: the condition
\* of the duplicate handling
IsDuplicate(error) == Includes(error.message, "2023") \/ Includes(error.message, "already")

\* existing.data?.[0]
First(items) == IF items = <<>> THEN NoRec ELSE items[1]

\* existing.data?.find(pred): the first element satisfying pred, or undefined
FindChain(items, chain) ==
  LET hits == SelectSeq(items, LAMBDA a : a.chain = chain) IN First(hits)
FindReceipt(items, receiptAddressId) ==
  LET hits == SelectSeq(items, LAMBDA r : r.receiptAddressId = receiptAddressId) IN First(hits)
FindRecipient(items, address, chain) ==
  LET hits == SelectSeq(items, LAMBDA r : r.address = address /\ r.chain = chain) IN First(hits)

\* ---- Step 1: linkBankAccount ----
linkBankAccountBody(params, key) ==
  [idempotencyKey |-> key,
   accountNumber |-> Nullish(params.accountNumber, "12340010"),
   routingNumber |-> Nullish(params.routingNumber, "121000248"),
   billingDetails |-> BillingDetails,
   bankAddress |-> BankAddress]

linkBankAccount_create ==
  /\ At("linkBankAccount", "create")
  /\ nuuid' = nuuid + 1
  /\ \E o \in createWireBankAccount(linkBankAccountBody(Top.l.params, Uuid(nuuid + 1))) :
       /\ Wire(o, 0)
       /\ IF o.ok THEN Return(Top.l, o.val)
          ELSE IF IsBankConflict(ErrOf(o))
               THEN Goto("list", [Top.l EXCEPT !.error = ErrOf(o)])
               ELSE Throw([Top.l EXCEPT !.error = ErrOf(o)], ErrOf(o))
  /\ SameButUuid

linkBankAccount_list ==
  /\ At("linkBankAccount", "list")
  /\ \E o \in listWireBankAccounts :
       /\ Wire(o, 0)
       /\ IF ~o.ok THEN Throw(Top.l, ErrOf(o))
          ELSE IF First(o.val.items) # NoRec THEN Return(Top.l, Json(First(o.val.items)))
          ELSE Throw(Top.l, Top.l.error)
  /\ Same

\* ---- Step 2: linkReceiptAddress ----
linkReceiptAddressBody(params, key) ==
  [idempotencyKey |-> key,
   chain |-> Nullish(params.chain, "ETH"),
   currency |-> Nullish(params.currency, "USD")]

linkReceiptAddressPickFirst(items, chain) == First(items)

\* the existing address linkReceiptAddress settles for: the chain match,
\* else the first listed, else undefined
linkReceiptAddressPick(items, chain) ==
  IF FindChain(items, chain) # NoRec THEN FindChain(items, chain) ELSE First(items)

linkReceiptAddress_create ==
  /\ At("linkReceiptAddress", "create")
  /\ nuuid' = nuuid + 1
  /\ \E o \in createDepositAddress(linkReceiptAddressBody(Top.l.params, Uuid(nuuid + 1))) :
       /\ Wire(o, 0)
       /\ IF o.ok THEN Return(Top.l, o.val)
          ELSE IF IsDuplicate(ErrOf(o))
               THEN Goto("list", [Top.l EXCEPT !.error = ErrOf(o)])
               ELSE Throw([Top.l EXCEPT !.error = ErrOf(o)], ErrOf(o))
  /\ SameButUuid

linkReceiptAddress_list ==
  /\ At("linkReceiptAddress", "list")
  /\ \E o \in listBusinessDepositAddresses :
       LET pick == linkReceiptAddressPick(o.val.items, Nullish(Top.l.params.chain, "ETH")) IN
       /\ Wire(o, 0)
       /\ IF ~o.ok THEN Throw(Top.l, ErrOf(o))
          ELSE IF pick # NoRec THEN Return(Top.l, Json(pick))
          ELSE Throw(Top.l, Top.l.error)
  /\ Same

\* ---- Step 3: initiateMockDeposit ----
initiateMockDepositBody(params) ==
  [trackingRef |-> params.trackingRef,
   amount |-> [amount |-> Nullish(params.amount, "100.00"), currency |-> "USD"],
   beneficiaryBank |-> [accountNumber |-> Nullish(params.accountNumber, "12340010")]]

initiateMockDeposit_create ==
  /\ At("initiateMockDeposit", "create")
  /\ \E o \in createMockWirePayment(initiateMockDepositBody(Top.l.params)) :
       /\ Wire(o, 0)
       /\ IF o.ok THEN Return(Top.l, o.val)
          ELSE IF IsDuplicate(ErrOf(o))
               THEN Return([Top.l EXCEPT !.error = ErrOf(o)], Null)
               ELSE Throw([Top.l EXCEPT !.error = ErrOf(o)], ErrOf(o))
  /\ Same

\* ---- Step 4: initiateOnChainDeposit ----
initiateOnChainDepositBody(params) ==
  [address |-> params.address,
   amount |-> [amount |-> Nullish(params.amount, "10.00"), currency |-> "USD"],
   chain |-> Nullish(params.chain, "ETH")]

initiateOnChainDeposit_create ==
  /\ At("initiateOnChainDeposit", "create")
  /\ \E o \in createMockBlockchainDeposit(initiateOnChainDepositBody(Top.l.params)) :
       /\ Wire(o, 0)
       /\ IF o.ok THEN Return(Top.l, o.val)
          ELSE Return([Top.l EXCEPT !.error = ErrOf(o)], Null)
  /\ Same

\* ---- Step 5: initiateOnChainTransfer ----
initiateOnChainTransferBody(params, key) ==
  [idempotencyKey |-> key,
   destination |-> [type |-> "verified_blockchain", addressId |-> params.recipientId],
   amount |-> [amount |-> Nullish(params.amount, "1.00"),
               currency |-> Nullish(params.currency, "USD")]]

initiateOnChainTransfer_create ==
  /\ At("initiateOnChainTransfer", "create")
  /\ nuuid' = nuuid + 1
  /\ \E o \in createBusinessTransfer(initiateOnChainTransferBody(Top.l.params, Uuid(nuuid + 1))) :
       /\ Wire(o, 0)
       /\ IF o.ok THEN Return(Top.l, o.val)
          ELSE Throw([Top.l EXCEPT !.error = ErrOf(o)], ErrOf(o))
  /\ SameButUuid

\* ---- Step 6: initiateWithdrawal ----
initiateWithdrawalBody(params, key) ==
  [idempotencyKey |-> key,
   destination |-> [type |-> Nullish(params.destinationType, "wire"),
                    id |-> params.bankAccountId],
   amount |-> [amount |-> Nullish(params.amount, "10.00"),
               currency |-> Nullish(params.currency, "USD")]]

initiateWithdrawalSwallows(l, error) == Return([l EXCEPT !.error = error], Null)

\* initiateWithdrawal has no try/catch: the rejection of createBusinessPayout
\* is the rejection of initiateWithdrawal
initiateWithdrawalRejects(l, error) == Throw([l EXCEPT !.error = error], error)

initiateWithdrawal_create ==
  /\ At("initiateWithdrawal", "create")
  /\ nuuid' = nuuid + 1
  /\ \E o \in createBusinessPayout(initiateWithdrawalBody(Top.l.params, Uuid(nuuid + 1))) :
       /\ Wire(o, 0)
       /\ IF o.ok THEN Return(Top.l, o.val)
          ELSE initiateWithdrawalRejects(Top.l, ErrOf(o))
  /\ SameButUuid

\* ---- Step 7: createExpressRoute ----
createExpressRouteBody(params, key) ==
  [idempotencyKey |-> key,
   receiptAddressId |-> params.receiptAddressId,
   destinationBankAccountId |-> params.bankAccountId,
   destinationType |-> Nullish(params.destinationType, "wire"),
   currency |-> Nullish(params.currency, "USD")]

\* existing.data?.find(r => r.receiptAddressId === params.receiptAddressId) ?? existing.data?.[0]
createExpressRoutePick(items, receiptAddressId) ==
  IF FindReceipt(items, receiptAddressId) # NoRec THEN FindReceipt(items, receiptAddressId)
  ELSE First(items)

createExpressRouteRethrows(l, error) == Throw(l, error)

\* createExpressRoute, end of the catch block: return null
createExpressRouteGivesUp(l, error) == Return(l, Null)

createExpressRoute_create ==
  /\ At("createExpressRoute", "create")
  /\ nuuid' = nuuid + 1
  /\ \E o \in createExpressRoute(createExpressRouteBody(Top.l.params, Uuid(nuuid + 1))) :
       /\ Wire(o, 0)
       /\ IF o.ok THEN Return(Top.l, o.val)
          ELSE IF IsDuplicate(ErrOf(o))
               THEN Goto("list", [Top.l EXCEPT !.error = ErrOf(o)])
               ELSE createExpressRouteGivesUp([Top.l EXCEPT !.error = ErrOf(o)], ErrOf(o))
  /\ SameButUuid

createExpressRoute_list ==
  /\ At("createExpressRoute", "list")
  /\ \E o \in listExpressRoutes :
       LET pick == createExpressRoutePick(o.val.items, Top.l.params.receiptAddressId) IN
       /\ Wire(o, 0)
       /\ IF o.ok /\ pick # NoRec THEN Return(Top.l, Json(pick))
          ELSE createExpressRouteGivesUp(Top.l, Top.l.error)
  /\ Same

\* ---- runFullFlow ----
NoBankParams == [accountNumber |-> Undefined, routingNumber |-> Undefined]

\* the arguments runFullFlow passes to steps 2, 3, 4, 5, 6 and 7
runFullFlowReceiptArgs(l) == [chain |-> l.chain, currency |-> Undefined]
runFullFlowMockDepositArgs(l, trackingRef, beneficiaryAccountNumber) ==
  [trackingRef |-> trackingRef,
   amount |-> Nullish(l.params.amount, "100.00"),
   accountNumber |-> beneficiaryAccountNumber]
runFullFlowOnChainDepositArgs(l) ==
  [address |-> l.depositAddress, chain |-> l.chain,
   amount |-> Nullish(l.params.amount, "10.00")]
runFullFlowTransferArgs(l) ==
  [recipientId |-> l.params.existingRecipientId, amount |-> "1.00", currency |-> Undefined]
runFullFlowWithdrawalArgs(l) ==
  [bankAccountId |-> l.bankAccountId, amount |-> "10.00", currency |-> Undefined,
   destinationType |-> Undefined]
runFullFlowRouteArgsAddress(l) ==
  [receiptAddressId |-> l.depositAddress, bankAccountId |-> l.bankAccountId,
   destinationType |-> Undefined, currency |-> Undefined]
runFullFlowRouteArgs(l) ==
  [receiptAddressId |-> l.depositAddressId, bankAccountId |-> l.bankAccountId,
   destinationType |-> Undefined, currency |-> Undefined]

runFullFlowInstructionsProblemRefOnly(trackingRef, beneficiaryAccountNumber) ==
  IF Falsy(trackingRef)
  THEN "Could not retrieve tracking ref from wire instructions"
  ELSE ""

\* the check of the wire instructions: the message of the Error to throw, or ""
runFullFlowInstructionsProblem(trackingRef, beneficiaryAccountNumber) ==
  IF Falsy(trackingRef)
  THEN "Could not retrieve tracking ref from wire instructions"
  ELSE IF Falsy(beneficiaryAccountNumber)
  THEN "Could not retrieve beneficiary account number from wire instructions"
  ELSE ""

Callee(params) == [params |-> params, error |-> NoErr]

\* Step 1: if (!bankAccountId) bank = await this.linkBankAccount()
runFullFlow_step1 ==
  /\ At("runFullFlow", "step1")
  /\ IF Falsy(Top.l.bankAccountId)
     THEN Await("step1_ret", Top.l, "linkBankAccount", "create", Callee(NoBankParams))
     ELSE Goto("step2", Top.l)
  /\ UNCHANGED <<net, nerr, remoteAddrs>>
  /\ Same

runFullFlow_step1_ret ==
  /\ At("runFullFlow", "step1_ret") /\ ret.kind # "none"
  /\ IF ret.kind = "throw" THEN Throw(Top.l, ret.err) /\ UNCHANGED nerr
     ELSE IF Falsy(ret.val.data.id)
     THEN /\ Throw([Top.l EXCEPT !.bankAccountId = ret.val.data.id],
                   NewError(nerr + 1, "Failed to obtain bank account ID"))
          /\ nerr' = nerr + 1
     ELSE Goto("step2", [Top.l EXCEPT !.bankAccountId = ret.val.data.id]) /\ UNCHANGED nerr
  /\ UNCHANGED <<net, remoteAddrs>>
  /\ Same

\* Step 2: if (!depositAddressId || !depositAddress) addr = await this.linkReceiptAddress({chain})
runFullFlow_step2 ==
  /\ At("runFullFlow", "step2")
  /\ IF Falsy(Top.l.depositAddressId) \/ Falsy(Top.l.depositAddress)
     THEN Await("step2_ret", Top.l, "linkReceiptAddress", "create",
                Callee(runFullFlowReceiptArgs(Top.l)))
     ELSE Goto("step3", Top.l)
  /\ UNCHANGED <<net, nerr, remoteAddrs>>
  /\ Same

runFullFlow_step2_ret ==
  /\ At("runFullFlow", "step2_ret") /\ ret.kind # "none"
  /\ LET l2 == [Top.l EXCEPT !.depositAddressId = ret.val.data.id,
                             !.depositAddress = ret.val.data.address] IN
     IF ret.kind = "throw" THEN Throw(Top.l, ret.err) /\ UNCHANGED nerr
     ELSE IF Falsy(l2.depositAddress)
     THEN /\ Throw(l2, NewError(nerr + 1, "Failed to obtain deposit address"))
          /\ nerr' = nerr + 1
     ELSE Goto("step3", l2) /\ UNCHANGED nerr
  /\ UNCHANGED <<net, remoteAddrs>>
  /\ Same

\* Step 3: wire instructions, their check, then await this.initiateMockDeposit(...)
runFullFlow_step3 ==
  /\ At("runFullFlow", "step3")
  /\ \E o \in getWireBankAccountInstructions(Top.l.bankAccountId) :
       LET trackingRef == o.val.data.trackingRef
           beneficiaryAccountNumber == o.val.data.accountNumber
           problem == runFullFlowInstructionsProblem(trackingRef, beneficiaryAccountNumber)
       IN
       IF ~o.ok THEN Wire(o, 0) /\ Throw(Top.l, ErrOf(o))
       ELSE IF problem # "" THEN Wire(o, 1) /\ Throw(Top.l, NewError(nerr + 1, problem))
       ELSE /\ Wire(o, 0)
            /\ Await("step3_ret", Top.l, "initiateMockDeposit", "create",
                     Callee(runFullFlowMockDepositArgs(Top.l, trackingRef,
                                                       beneficiaryAccountNumber)))
  /\ Same

\* Step 4: await this.initiateOnChainDeposit(...)
runFullFlow_step3_ret ==
  /\ At("runFullFlow", "step3_ret") /\ ret.kind # "none"
  /\ IF ret.kind = "throw" THEN Throw(Top.l, ret.err)
     ELSE Await("step4_ret", Top.l, "initiateOnChainDeposit", "create",
                Callee(runFullFlowOnChainDepositArgs(Top.l)))
  /\ UNCHANGED <<net, nerr, remoteAddrs>>
  /\ Same

\* Step 5: if (recipientId) await this.initiateOnChainTransfer(...); else step 6
runFullFlow_step4_ret ==
  /\ At("runFullFlow", "step4_ret") /\ ret.kind # "none"
  /\ IF ret.kind = "throw" THEN Throw(Top.l, ret.err)
     ELSE IF ~Falsy(Top.l.params.existingRecipientId)
     THEN Await("step5_ret", Top.l, "initiateOnChainTransfer", "create",
                Callee(runFullFlowTransferArgs(Top.l)))
     ELSE Await("step6_ret", Top.l, "initiateWithdrawal", "create",
                Callee(runFullFlowWithdrawalArgs(Top.l)))
  /\ UNCHANGED <<net, nerr, remoteAddrs>>
  /\ Same

\* Step 6: await this.initiateWithdrawal(...)
runFullFlow_step5_ret ==
  /\ At("runFullFlow", "step5_ret") /\ ret.kind # "none"
  /\ IF ret.kind = "throw" THEN Throw(Top.l, ret.err)
     ELSE Await("step6_ret", Top.l, "initiateWithdrawal", "create",
                Callee(runFullFlowWithdrawalArgs(Top.l)))
  /\ UNCHANGED <<net, nerr, remoteAddrs>>
  /\ Same

\* Step 7: await this.createExpressRoute(...)
runFullFlow_step6_ret ==
  /\ At("runFullFlow", "step6_ret") /\ ret.kind # "none"
  /\ IF ret.kind = "throw" THEN Throw(Top.l, ret.err)
     ELSE Await("step7_ret", Top.l, "createExpressRoute", "create",
                Callee(runFullFlowRouteArgs(Top.l)))
  /\ UNCHANGED <<net, nerr, remoteAddrs>>
  /\ Same

runFullFlow_step7_ret ==
  /\ At("runFullFlow", "step7_ret") /\ ret.kind # "none"
  /\ IF ret.kind = "throw" THEN Throw(Top.l, ret.err) ELSE Return(Top.l, Void)
  /\ UNCHANGED <<net, nerr, remoteAddrs>>
  /\ Same

\* ---- calls from the express-route CLI and the dashboard ----
FlowParams ==
  { [chain |-> c, amount |-> Undefined, existingBankId |-> b, existingDepositAddressId |-> d[1],
     existingDepositAddress |-> d[2], existingRecipientId |-> r] :
      c \in {Undefined, "MATIC"}, b \in {Undefined, "bank7"},
      d \in {<<Undefined, Undefined>>, <<"da7", "0x7">>, <<"da7", Undefined>>},
      r \in {Undefined, "r1"} }

runFullFlow_call ==
  /\ calls = 0
  /\ \E params \in FlowParams :
       Start("runFullFlow", "step1",
             [params |-> params,
              bankAccountId |-> params.existingBankId,
              depositAddressId |-> params.existingDepositAddressId,
              depositAddress |-> params.existingDepositAddress,
              chain |-> Nullish(params.chain, "ETH"),
              error |-> NoErr])

linkBankAccount_call ==
  /\ calls = 0
  /\ \E a \in {Undefined, "99887766"} :
       Start("linkBankAccount", "create", Callee([NoBankParams EXCEPT !.accountNumber = a]))

linkReceiptAddress_call ==
  /\ calls < MaxCalls
  /\ calls > 0 => Done("linkReceiptAddress")
  /\ \E c \in Chains \cup {Undefined} :
       Start("linkReceiptAddress", "create", Callee([chain |-> c, currency |-> Undefined]))

initiateMockDeposit_call ==
  /\ calls = 0
  /\ \E a \in {Undefined, "5.00"} :
       Start("initiateMockDeposit", "create",
             Callee([trackingRef |-> "CIR3", amount |-> a, accountNumber |-> Undefined]))

initiateOnChainDeposit_call ==
  /\ calls = 0
  /\ Start("initiateOnChainDeposit", "create",
           Callee([address |-> "0x1", chain |-> Undefined, amount |-> Undefined]))

initiateOnChainTransfer_call ==
  /\ calls = 0
  /\ Start("initiateOnChainTransfer", "create",
           Callee([recipientId |-> "r1", amount |-> Undefined, currency |-> "USD"]))

initiateWithdrawal_call ==
  /\ calls = 0
  /\ Start("initiateWithdrawal", "create",
           Callee([bankAccountId |-> "bank1", amount |-> Undefined, currency |-> "USD",
                   destinationType |-> Undefined]))

createExpressRoute_call ==
  /\ calls = 0
  /\ \E a \in {"da1", "da2"} :
       Start("createExpressRoute", "create",
             Callee([receiptAddressId |-> a, bankAccountId |-> "bank1",
                     destinationType |-> "wire", currency |-> "USD"]))

(***************************************************************************)
(* Numbers: parseFloat and Number.prototype.toFixed(2)                     *)
(***************************************************************************)
Char(s, i) == IF i >= 1 /\ i <= Len(s) THEN SubSeq(s, i, i) ELSE ""
IsDigit(c) == c \in {"0", "1", "2", "3", "4", "5", "6", "7", "8", "9"}
DigitValue(c) ==
  CASE c = "0" -> 0 [] c = "1" -> 1 [] c = "2" -> 2 [] c = "3" -> 3 [] c = "4" -> 4
    [] c = "5" -> 5 [] c = "6" -> 6 [] c = "7" -> 7 [] c = "8" -> 8 [] c = "9" -> 9

\* the index of the last character of the run of digits of s that starts at i
\* (i - 1 if s has no digit at i)
RECURSIVE DigitsEnd(_, _)
DigitsEnd(s, i) == IF IsDigit(Char(s, i)) THEN DigitsEnd(s, i + 1) ELSE i - 1

\* the value of a string of digits
RECURSIVE DigitsValue(_)
DigitsValue(s) ==
  IF s = "" THEN 0
  ELSE 10 * DigitsValue(SubSeq(s, 1, Len(s) - 1)) + DigitValue(Char(s, Len(s)))

RECURSIVE Pow10(_)
Pow10(d) == IF d = 0 THEN 1 ELSE 10 * Pow10(d - 1)

\* the index of the first character of s that is not white space
RECURSIVE SkipSpace(_, _)
SkipSpace(s, i) == IF Char(s, i) = " " THEN SkipSpace(s, i + 1) ELSE i

\* a Number: NaN, or (-1)^neg * n / 10^d
NaN == [nan |-> TRUE, neg |-> FALSE, n |-> 0, d |-> 0]

\* parseFloat(s): the longest prefix of the trimmed string that reads as a
\* decimal literal (sign, digits, fraction); exponents and Infinity are not
\* among the amounts of the model
parseFloat(s) ==
  LET i0 == SkipSpace(s, 1)
      neg == Char(s, i0) = "-"
      i == IF Char(s, i0) \in {"-", "+"} THEN i0 + 1 ELSE i0
      a == DigitsEnd(s, i)
      b == IF Char(s, a + 1) = "." THEN DigitsEnd(s, a + 2) ELSE a
      whole == SubSeq(s, i, a)
      frac == SubSeq(s, a + 2, b)
  IN IF whole = "" /\ frac = "" THEN NaN
     ELSE [nan |-> FALSE, neg |-> neg, n |-> DigitsValue(whole \o frac), d |-> Len(frac)]

\* params.amount.match(/^\d+(\.\d+)?$/)
MatchesDecimal(s) ==
  LET a == DigitsEnd(s, 1)
      b == DigitsEnd(s, a + 2)
  IN /\ a >= 1
     /\ \/ a = Len(s)
        \/ Char(s, a + 1) = "." /\ b >= a + 2 /\ b = Len(s)

\* floor(log2(n / 10^d)) for n > 0
RECURSIVE Log2Up(_, _, _)
Log2Up(n, p, e) == IF 2 * p <= n THEN Log2Up(n, 2 * p, e + 1) ELSE e
RECURSIVE Log2Down(_, _, _)
Log2Down(n, p, e) == IF n >= p THEN e ELSE Log2Down(2 * n, p, e - 1)
FloorLog2(n, d) == IF n >= Pow10(d) THEN Log2Up(n, Pow10(d), 0) ELSE Log2Down(n, Pow10(d), 0)

\* (n * 2^k) mod m
RECURSIVE MulPow2Mod(_, _, _)
MulPow2Mod(n, k, m) == IF k = 0 THEN n % m ELSE (2 * MulPow2Mod(n, k - 1, m)) % m

\* the sign of (the IEEE-754 double nearest to n / 10^d) - n / 10^d: the
\* double is m / 2^k for the integer m nearest to n * 2^k / 10^d (ties to even)
DoubleError(n, d) ==
  LET k == 52 - FloorLog2(n, d)
      v == MulPow2Mod(n, k, 2 * Pow10(d))
      r == v % Pow10(d)
  IN IF r = 0 THEN 0
     ELSE IF 2 * r < Pow10(d) THEN -1
     ELSE IF 2 * r > Pow10(d) THEN 1
     ELSE IF v >= Pow10(d) THEN 1 ELSE -1

\* the integer c for which c / 100 is nearest to the double of n / 10^d, the
\* larger one if two are equally near
Hundredths(n, d) ==
  IF d <= 2 THEN n * Pow10(2 - d)
  ELSE LET p == Pow10(d - 2)
           q == n \div p
           r == n % p
       IN IF 2 * r < p THEN q
          ELSE IF 2 * r > p THEN q + 1
          ELSE IF DoubleError(n, d) < 0 THEN q ELSE q + 1

\* x.toFixed(2)
toFixed2(x) ==
  IF x.nan THEN "NaN"
  ELSE LET c == Hundredths(x.n, x.d)
           cents == c % 100
       IN (IF x.neg /\ x.n > 0 THEN "-" ELSE "")
          \o ToString(c \div 100) \o "."
          \o (IF cents < 10 THEN "0" ELSE "") \o ToString(cents)

(***************************************************************************)
(* AccountAndTransferTester.createTransfer, CircleMintTester               *)
(* .testCreatePayout and the dashboard's POST /api/payouts                 *)
(***************************************************************************)
\* Date.now() moves on while a call is in progress
tick ==
  /\ Running
  /\ now < MaxNow
  /\ now' = now + 1
  /\ UNCHANGED <<baseUrl, apiKey, stack, ret, net, nerr, nuuid, remoteAddrs, calls, prev, timers, serverVars>>

\* checkBalance: const balance = await this.client.getBalance()
checkBalance_start ==
  /\ At("checkBalance", "start")
  /\ Await("balance_ret", Top.l, "getBalance", "primary", [params |-> NoParams, error |-> NoErr])
  /\ UNCHANGED <<net, nerr, remoteAddrs>>
  /\ Same

\* checkBalance: return balance, or catch (error) { throw error }
checkBalance_ret ==
  /\ At("checkBalance", "balance_ret") /\ ret.kind # "none"
  /\ IF ret.kind = "throw" THEN Throw(Top.l, ret.err) ELSE Return(Top.l, ret.val)
  /\ UNCHANGED <<net, nerr, remoteAddrs>>
  /\ Same

InvalidAmountMsg ==
  "Invalid amount format. Must be a string representing major units (e.g. \"1.00\")."
NoMatchMsg == "Cannot read properties of undefined (reading 'match')"
NoRecipientMsg == "Failed to add address to address book"

\* the Error the amount check of createTransfer throws, or ""
createTransferAmountProblem(amount) ==
  IF amount = Undefined THEN NoMatchMsg
  ELSE IF ~MatchesDecimal(amount) THEN InvalidAmountMsg
  ELSE ""

createTransferRecipientBody(params, t) ==
  [idempotencyKey |-> "ab-" \o ToString(t),
   chain |-> params.chain,
   address |-> params.recipientAddress,
   metadata |-> [nickname |-> "Transfer target " \o params.chain]]

createTransferRecipientAccepted(recipientId) == FALSE

\* if (!recipientId) throw ...
createTransferRecipientMissing(recipientId) == Falsy(recipientId)

createTransferPayoutBody(params, recipientId, t) ==
  [idempotencyKey |-> "transfer-" \o ToString(t),
   destination |-> [type |-> "address_book", id |-> recipientId],
   amount |-> [amount |-> toFixed2(parseFloat(params.amount)),
               currency |-> IF Falsy(params.currency) THEN "USD" ELSE params.currency]]

\* createTransfer: const balance = await this.checkBalance()
createTransfer_start ==
  /\ At("createTransfer", "start")
  /\ Await("balance_ret", Top.l, "checkBalance", "start", [params |-> NoParams])
  /\ UNCHANGED <<net, nerr, remoteAddrs>>
  /\ Same

\* createTransfer: the amount check, then createAddressBookRecipient and the
\* check of the id it returned
createTransfer_recipient ==
  /\ At("createTransfer", "balance_ret") /\ ret.kind # "none"
  /\ LET problem == createTransferAmountProblem(Top.l.params.amount) IN
     IF ret.kind = "throw"
     THEN Throw(Top.l, ret.err) /\ UNCHANGED <<net, nerr, remoteAddrs>>
     ELSE IF problem # ""
     THEN /\ Throw(Top.l, NewError(nerr + 1, problem))
          /\ nerr' = nerr + 1
          /\ UNCHANGED <<net, remoteAddrs>>
     ELSE \E o \in createAddressBookRecipient(createTransferRecipientBody(Top.l.params, now)) :
            LET recipientId == o.val.data.id IN
            IF ~o.ok THEN Wire(o, 0) /\ Throw(Top.l, ErrOf(o))
            ELSE IF createTransferRecipientMissing(recipientId)
            THEN Wire(o, 1) /\ Throw(Top.l, NewError(nerr + 1, NoRecipientMsg))
            ELSE Wire(o, 0) /\ Goto("payout", [Top.l EXCEPT !.recipientId = recipientId])
  /\ Same

\* createTransfer: createPayout with the address book recipient id
createTransfer_payout ==
  /\ At("createTransfer", "payout")
  /\ \E o \in createPayout(createTransferPayoutBody(Top.l.params, Top.l.recipientId, now)) :
       /\ Wire(o, 0)
       /\ IF o.ok THEN Return(Top.l, o.val) ELSE Throw(Top.l, ErrOf(o))
  /\ Same

\* the amounts handed to the payout operations
Amounts == {"1", "1.005", "8.345", "0.125", "abc", Undefined}

createTransfer_call ==
  /\ calls = 0
  /\ \E a \in Amounts, c \in {Undefined, "USDC"} :
       Start("createTransfer", "start",
             [params |-> [recipientAddress |-> "0xabc", chain |-> "ETH",
                          amount |-> a, currency |-> c],
              recipientId |-> Undefined])

testCreatePayoutBody(params, t) ==
  [idempotencyKey |-> "payout-" \o ToString(t),
   destination |-> [type |-> "address", address |-> params.address, chain |-> params.chain],
   amount |-> [amount |-> params.amount,
               currency |-> IF Falsy(params.currency) THEN "USDC" ELSE params.currency]]

\* testCreatePayout: createPayout; an error is caught and logged with console.error
testCreatePayout_create ==
  /\ At("testCreatePayout", "create")
  /\ \E o \in createPayout(testCreatePayoutBody(Top.l.params, now)) :
       /\ Wire(o, 0)
       /\ IF o.ok THEN Return(Top.l, Void)
          ELSE Return([Top.l EXCEPT !.error = ErrOf(o)], Void)
  /\ Same

testCreatePayout_call ==
  /\ calls = 0
  /\ \E a \in {"1.00", "abc"} :
       Start("testCreatePayout", "create",
             [params |-> [address |-> "0xabc", chain |-> "ETH", amount |-> a,
                          currency |-> Undefined],
              error |-> NoErr])

\* run(fn): {logs, data} or {logs, data: null, error: message}
run(o) ==
  IF o.ok THEN [data |-> o.val, error |-> Undefined]
  ELSE [data |-> Null, error |-> o.message]

\* send(res, result): the status of the response
send(result) == IF ~Falsy(result.error) THEN 400 ELSE 200

NoResponse == [status |-> 0, result |-> [data |-> Null, error |-> Undefined]]

postPayoutsBody(body, key) ==
  [idempotencyKey |-> key,
   destination |-> [type |-> "address_book", id |-> body.recipientId],
   amount |-> [amount |-> toFixed2(parseFloat(body.amount)),
               currency |-> Nullish(body.currency, "USD")]]

\* POST /api/payouts
postPayouts_createPayout ==
  /\ At("postPayouts", "create")
  /\ \E o \in createPayout(postPayoutsBody(Top.l.body, Uuid(nuuid + 1))) :
       /\ Wire(o, 0)
       /\ Return([Top.l EXCEPT !.res = [status |-> send(run(o)), result |-> run(o)]], Void)
  /\ nuuid' = nuuid + 1
  /\ SameButUuid

postPayouts_call ==
  /\ calls = 0
  /\ \E r \in {"ab1", "0xabc", Undefined}, a \in Amounts, c \in {Undefined, "USD"} :
       Start("postPayouts", "create",
             [body |-> [recipientId |-> r, amount |-> a, currency |-> c],
              res |-> NoResponse])

\* AccountAndTransferTester.createBusinessPayout: the body sent
businessPayoutBody(params, t) ==
  LET body == [idempotencyKey |-> "business-payout-" \o ToString(t),
               destination |-> [type |-> params.destinationType, id |-> params.destinationId],
               amount |-> [amount |-> params.amount, currency |-> params.currency]]
  IN IF Falsy(params.walletId) THEN body
     ELSE body @@ ("source" :> [type |-> "wallet", id |-> params.walletId])

\* AccountAndTransferTester.createBusinessPayout: one request; an error is
\* logged and rethrown
businessPayout_create ==
  /\ At("businessPayout", "create")
  /\ \E o \in createBusinessPayout(businessPayoutBody(Top.l.params, now)) :
       /\ Wire(o, 0)
       /\ IF o.ok THEN Return(Top.l, o.val) ELSE Throw(Top.l, ErrOf(o))
  /\ Same

\* the amounts the business-payout command accepts (it exits on an empty one)
FiatAmounts == {"1", "100.00", "abc"}

\* account CLI, 'business-payout' command
businessPayout_call ==
  /\ calls = 0
  /\ \E a \in FiatAmounts, w \in {Undefined, "w1"} :
       Start("businessPayout", "create",
             [params |-> [destinationType |-> "wire", destinationId |-> "bank1",
                          amount |-> a, currency |-> "USD", walletId |-> w]])

\* POST /api/payouts/wire: the arguments handed to createBusinessPayout
postPayoutsWireArgs(body) ==
  [destinationType |-> "wire", destinationId |-> body.bankId,
   amount |-> toFixed2(parseFloat(body.amount)),
   currency |-> Nullish(body.currency, "USD"), walletId |-> Undefined]

\* the outcome run() sees when the awaited operation has completed with r
Settled(r) == [ok |-> r.kind = "ok", val |-> r.val, message |-> r.err.message]

postPayoutsWire_start ==
  /\ At("postPayoutsWire", "start")
  /\ Await("payout_ret", Top.l, "businessPayout", "create",
           [params |-> postPayoutsWireArgs(Top.l.body)])
  /\ UNCHANGED <<net, nerr, remoteAddrs>>
  /\ Same

postPayoutsWire_send ==
  /\ At("postPayoutsWire", "payout_ret") /\ ret.kind # "none"
  /\ Return([Top.l EXCEPT !.res = [status |-> send(run(Settled(ret))),
                                   result |-> run(Settled(ret))]], Void)
  /\ UNCHANGED <<net, nerr, remoteAddrs>>
  /\ Same

postPayoutsWire_call ==
  /\ calls = 0
  /\ \E b \in {"bank1", Undefined}, a \in Amounts, c \in {Undefined, "USD"} :
       Start("postPayoutsWire", "start",
             [body |-> [bankId |-> b, amount |-> a, currency |-> c],
              res |-> NoResponse])

\* a recipient body without its idempotency key
createRecipientAddressBodyKeyless(params, key) ==
  [chain |-> params.chain, address |-> params.address,
   currency |-> "USD", description |-> params.description, addressTag |-> params.addressTag]

\* AccountAndTransferTester.createRecipientAddress: the body sent
createRecipientAddressBody(params, key) ==
  [idempotencyKey |-> key, chain |-> params.chain, address |-> params.address,
   currency |-> "USD", description |-> params.description, addressTag |-> params.addressTag]

\* AccountAndTransferTester.createRecipientAddress: one request; an error is
\* logged and rethrown
recipientAddress_create ==
  /\ At("recipientAddress", "create")
  /\ \E o \in createRecipientAddress(createRecipientAddressBody(Top.l.params, Uuid(nuuid + 1))) :
       /\ Wire(o, 0)
       /\ IF o.ok THEN Return(Top.l, o.val) ELSE Throw(Top.l, ErrOf(o))
  /\ nuuid' = nuuid + 1
  /\ SameButUuid

\* POST /api/recipients
postRecipients_start ==
  /\ At("postRecipients", "start")
  /\ Await("recipient_ret", Top.l, "recipientAddress", "create", [params |-> Top.l.body])
  /\ UNCHANGED <<net, nerr, remoteAddrs>>
  /\ Same

postRecipients_send ==
  /\ At("postRecipients", "recipient_ret") /\ ret.kind # "none"
  /\ Return([Top.l EXCEPT !.res = [status |-> send(run(Settled(ret))),
                                   result |-> run(Settled(ret))]], Void)
  /\ UNCHANGED <<net, nerr, remoteAddrs>>
  /\ Same

postRecipients_call ==
  /\ calls = 0
  /\ \E t \in {Undefined, "memo"} :
       Start("postRecipients", "start",
             [body |-> [chain |-> "ETH", address |-> "0xabc", description |-> "desk",
                        addressTag |-> t],
              res |-> NoResponse])

\* POST /api/notifications/subscriptions
postSubscriptions_create ==
  /\ At("postSubscriptions", "create")
  /\ \E o \in createSubscription(Top.l.body.endpoint) :
       /\ Wire(o, 0)
       /\ Return([Top.l EXCEPT !.res = [status |-> send(run(o)), result |-> run(o)]], Void)
  /\ Same

postSubscriptions_call ==
  /\ calls = 0
  /\ \E e \in {"https://hook.example/webhooks", Undefined} :
       Start("postSubscriptions", "create", [body |-> [endpoint |-> e], res |-> NoResponse])

(***************************************************************************)
(* AccountAndTransferTester.runTestFlow                                    *)
(***************************************************************************)
\* the tester methods that wrap one client request in try { .. } catch
\* (error) { console.error(..); throw error }
testerBody(op, params, key) ==
  CASE op = "createDepositAddress" ->
         [idempotencyKey |-> key, chain |-> params.chain, currency |-> params.currency]
    [] op = "createBusinessTransfer" ->
         [idempotencyKey |-> key,
          destination |-> [type |-> "verified_blockchain", addressId |-> params.recipientId],
          amount |-> [amount |-> params.amount, currency |-> params.currency]]
    [] OTHER -> NoBody

testerOutcomes(op, params, key) ==
  CASE op = "createDepositAddress" -> createDepositAddress(testerBody(op, params, key))
    [] op = "createBusinessTransfer" -> createBusinessTransfer(testerBody(op, params, key))
    [] op = "getBusinessTransferStatus" -> getBusinessTransfer(params.id)
    [] op = "getTransferStatus" -> getPayout(params.id)

tester_request ==
  /\ At("tester", "request")
  /\ LET creates == Top.l.op \in {"createDepositAddress", "createBusinessTransfer"} IN
     /\ \E o \in testerOutcomes(Top.l.op, Top.l.params, Uuid(nuuid + 1)) :
          /\ Wire(o, 0)
          /\ IF o.ok THEN Return(Top.l, o.val) ELSE Throw(Top.l, ErrOf(o))
     /\ nuuid' = IF creates THEN nuuid + 1 ELSE nuuid
  /\ SameButUuid

\* params?.testTransfer when it is undefined
NoTransfer == [recipientAddress |-> Undefined, chain |-> Undefined, amount |-> Undefined,
               currency |-> Undefined]

\* const blockchain = params?.blockchain || 'ETH'
Blockchain(l) == IF Falsy(l.params.blockchain) THEN "ETH" ELSE l.params.blockchain

\* the condition of step 3 and of its auto branch
WantsTransfer(l) ==
  \/ l.params.testTransfer # NoTransfer
  \/ l.params.autoTest /\ ~Falsy(l.depositAddress.address)
IsAutoTest(l) ==
  l.params.testTransfer = NoTransfer /\ l.params.autoTest /\ ~Falsy(l.depositAddress.address)

\* console.log / console.warn / console.error of the flow's own outcome lines
Logged(l, level, text) == [l EXCEPT !.logged = Append(@, [level |-> level, text |-> text])]
CompletedLine == "Test flow completed!"
FailedLine == "Test flow failed:"
AutoFailedLine == "Auto-transfer execution failed"
ManualFailedLine == "Transfer failed:"

\* the flow ends normally
runTestFlowCompletes(l) == Return(Logged(l, "log", CompletedLine), Void)
\* the outer catch: console.error, throw error
runTestFlowFails(l, e) == Throw(Logged(l, "error", FailedLine), e)
\* the auto branch without its catch
runTestFlowAutoUncaught(l) == runTestFlowFails(l, NewError(nerr + 1, AutoFailedLine))
\* the catch of the auto branch: console.warn, continue
runTestFlowAutoCaught(l) == runTestFlowCompletes(Logged(l, "warn", AutoFailedLine))
\* the catch of the manual branch: console.error, continue
runTestFlowManualCaught(l) == runTestFlowCompletes(Logged(l, "error", ManualFailedLine))

\* await new Promise(resolve => setTimeout(resolve, 2000)) has elapsed
Elapsed == timers' = Append(timers, Len(net))
SameButTimers == UNCHANGED <<baseUrl, apiKey, calls, prev, nuuid, now, serverVars>>

\* Step 1: await this.checkBalance()
runTestFlow_step1 ==
  /\ At("runTestFlow", "step1")
  /\ Await("balance_ret", Top.l, "checkBalance", "start", [params |-> NoParams])
  /\ UNCHANGED <<net, nerr, remoteAddrs>>
  /\ Same

runTestFlowMatchedNone(items, blockchain) == NoRec

\* existingAddresses.data.find(addr => addr.chain === blockchain), when the
\* list is not empty
runTestFlowMatched(items, blockchain) == FindChain(items, blockchain)

\* Step 2: list the deposit addresses, use the one of the requested chain or
\* create one
runTestFlow_step2 ==
  /\ At("runTestFlow", "balance_ret") /\ ret.kind # "none"
  /\ IF ret.kind = "throw"
     THEN runTestFlowFails(Top.l, ret.err) /\ UNCHANGED <<net, nerr, remoteAddrs>>
     ELSE \E o \in listBusinessDepositAddresses :
            /\ Wire(o, 0)
            /\ IF ~o.ok THEN runTestFlowFails(Top.l, ErrOf(o))
               ELSE LET matchedAddress == runTestFlowMatched(o.val.items, Blockchain(Top.l)) IN
                    IF matchedAddress # NoRec
                    THEN Goto("step3", [Top.l EXCEPT !.depositAddress = matchedAddress])
                    ELSE Await("address_ret", Top.l, "tester", "request",
                               [op |-> "createDepositAddress",
                                params |-> [chain |-> Blockchain(Top.l), currency |-> "USD"]])
  /\ Same

runTestFlow_address_ret ==
  /\ At("runTestFlow", "address_ret") /\ ret.kind # "none"
  /\ IF ret.kind = "throw" THEN runTestFlowFails(Top.l, ret.err)
     ELSE Goto("step3", [Top.l EXCEPT !.depositAddress = ret.val.data])
  /\ UNCHANGED <<net, nerr, remoteAddrs>>
  /\ Same

\* Step 3: if a transfer is wanted, wait 2 seconds first
runTestFlow_step3 ==
  /\ At("runTestFlow", "step3")
  /\ IF WantsTransfer(Top.l) THEN Goto("transfer", Top.l) ELSE runTestFlowCompletes(Top.l)
  /\ UNCHANGED <<net, nerr, remoteAddrs>>
  /\ Same

\* after the wait: the auto branch lists the recipients and reuses or creates
\* one; the manual branch calls createTransfer
runTestFlow_transfer ==
  /\ At("runTestFlow", "transfer")
  /\ Elapsed
  /\ IF IsAutoTest(Top.l)
     THEN \E o \in listRecipientAddresses :
            /\ Wire(o, 0)
            /\ IF ~o.ok THEN runTestFlowAutoCaught(Top.l)
               ELSE LET existingRecipient ==
                          FindRecipient(o.val.items, Top.l.depositAddress.address,
                                        Blockchain(Top.l)) IN
                    IF existingRecipient # NoRec
                    THEN Goto("business", [Top.l EXCEPT !.recipientId = existingRecipient.id])
                    ELSE Await("recipient_ret", Top.l, "recipientAddress", "create",
                               [params |-> [chain |-> Blockchain(Top.l),
                                            address |-> Top.l.depositAddress.address,
                                            description |-> "Auto-created for "
                                               \o Top.l.depositAddress.address,
                                            addressTag |-> Undefined]])
     ELSE /\ Await("manual_ret", Top.l, "createTransfer", "start",
                   [params |-> Top.l.params.testTransfer, recipientId |-> Undefined])
          /\ UNCHANGED <<net, nerr, remoteAddrs>>
  /\ SameButTimers

\* recipientId = newRecipient.data?.id, then the wait for propagation
runTestFlow_recipient_ret ==
  /\ At("runTestFlow", "recipient_ret") /\ ret.kind # "none"
  /\ IF ret.kind = "throw" THEN runTestFlowAutoCaught(Top.l)
     ELSE Goto("propagation", [Top.l EXCEPT !.recipientId = ret.val.data.id])
  /\ UNCHANGED <<net, nerr, remoteAddrs>>
  /\ Same

runTestFlow_propagation ==
  /\ At("runTestFlow", "propagation")
  /\ Elapsed
  /\ Goto("business", Top.l)
  /\ UNCHANGED <<net, nerr, remoteAddrs>>
  /\ SameButTimers

\* if (recipientId) transfer = await this.createBusinessTransfer(..)
runTestFlow_business ==
  /\ At("runTestFlow", "business")
  /\ IF Falsy(Top.l.recipientId) THEN runTestFlowCompletes(Top.l)
     ELSE Await("business_ret", Top.l, "tester", "request",
                [op |-> "createBusinessTransfer",
                 params |-> [recipientId |-> Top.l.recipientId, amount |-> "1.00",
                             currency |-> "USD"]])
  /\ UNCHANGED <<net, nerr, remoteAddrs>>
  /\ Same

\* if (transfer.data?.id) wait 2 seconds, then check the status
runTestFlow_business_ret ==
  /\ At("runTestFlow", "business_ret") /\ ret.kind # "none"
  /\ IF ret.kind = "throw" THEN runTestFlowAutoCaught(Top.l)
     ELSE IF Falsy(ret.val.data.id) THEN runTestFlowCompletes(Top.l)
     ELSE Goto("status", [Top.l EXCEPT !.transferId = ret.val.data.id])
  /\ UNCHANGED <<net, nerr, remoteAddrs>>
  /\ Same

\* the manual branch: if (transfer.data?.id) wait 2 seconds, then check the status
runTestFlow_manual_ret ==
  /\ At("runTestFlow", "manual_ret") /\ ret.kind # "none"
  /\ IF ret.kind = "throw" THEN runTestFlowManualCaught(Top.l)
     ELSE IF Falsy(ret.val.data.id) THEN runTestFlowCompletes(Top.l)
     ELSE Goto("status", [Top.l EXCEPT !.transferId = ret.val.data.id])
  /\ UNCHANGED <<net, nerr, remoteAddrs>>
  /\ Same

\* after the wait: getBusinessTransferStatus (auto) or getTransferStatus (manual)
runTestFlow_status ==
  /\ At("runTestFlow", "status")
  /\ Elapsed
  /\ Await("status_ret", Top.l, "tester", "request",
           [op |-> IF IsAutoTest(Top.l) THEN "getBusinessTransferStatus"
                   ELSE "getTransferStatus",
            params |-> [id |-> Top.l.transferId]])
  /\ UNCHANGED <<net, nerr, remoteAddrs>>
  /\ SameButTimers

runTestFlow_status_ret ==
  /\ At("runTestFlow", "status_ret") /\ ret.kind # "none"
  /\ IF ret.kind = "ok" THEN runTestFlowCompletes(Top.l)
     ELSE IF IsAutoTest(Top.l) THEN runTestFlowAutoCaught(Top.l)
     ELSE runTestFlowManualCaught(Top.l)
  /\ UNCHANGED <<net, nerr, remoteAddrs>>
  /\ Same

\* the parameters the flow is run with
TestFlowParams ==
  { [blockchain |-> b, testTransfer |-> t, autoTest |-> a] :
      b \in {Undefined, "MATIC"}, a \in BOOLEAN,
      t \in {NoTransfer, [recipientAddress |-> "0xabc", chain |-> "ETH", amount |-> "1",
                          currency |-> "USDC"]} }

runTestFlow_call ==
  /\ calls = 0
  /\ \E p \in TestFlowParams :
       Start("runTestFlow", "step1",
             [params |-> p, depositAddress |-> NoRec, recipientId |-> Undefined,
              transferId |-> Undefined, logged |-> <<>>])

\* runTestFlow is run, and run again for the same chain once the run before
\* has ended; no transfer is asked for
runTestFlow_rerun ==
  /\ calls < MaxCalls
  /\ calls > 0 => Done("runTestFlow")
  /\ \E p \in {q \in TestFlowParams : ~q.autoTest /\ q.testTransfer = NoTransfer} :
       /\ calls > 0 => p.blockchain = stack[1].l.params.blockchain
       /\ Start("runTestFlow", "step1",
                [params |-> p, depositAddress |-> NoRec, recipientId |-> Undefined,
                 transferId |-> Undefined, logged |-> <<>>])

(***************************************************************************)
(* Dashboard: the 404 fallback, the error handler and one express-route    *)
(* step                                                                    *)
(***************************************************************************)
\* a response that is not a run() result: {error: message}
ErrorJson(status, message) == [status |-> status, result |-> [data |-> Void, error |-> message]]

\* app.use('/api', ..): no route matched
apiFallback == ErrorJson(404, "API route not found")

\* app.use((err, req, res, next) => ..)
errorHandler(message) == ErrorJson(500, message)

NoBodyMsg == "Cannot destructure property 'receiptAddressId' of 'req.body' as it is undefined."
BadJsonMsg == "Unexpected end of JSON input"

\* req.body of a request that carried no JSON body
NoRouteBody == [receiptAddressId |-> Undefined, bankAccountId |-> Undefined,
                destinationType |-> Undefined, currency |-> Undefined]

\* POST /api/express-route/create. Destructuring req.body throws when the JSON
\* middleware left it undefined (it leaves {} or undefined for a request
\* without a body, depending on the installed express); asyncHandler hands
\* the error to the error handler
postExpressRouteCreate_start ==
  /\ At("postExpressRouteCreate", "start")
  /\ \/ /\ Top.l.parsed
        /\ Await("route_ret", Top.l, "createExpressRoute", "create", Callee(Top.l.body))
     \/ /\ ~Top.l.parsed
        /\ Return([Top.l EXCEPT !.res = errorHandler(NoBodyMsg)], Void)
  /\ UNCHANGED <<net, nerr, remoteAddrs>>
  /\ Same

postExpressRouteCreate_send ==
  /\ At("postExpressRouteCreate", "route_ret") /\ ret.kind # "none"
  /\ Return([Top.l EXCEPT !.res = [status |-> send(run(Settled(ret))),
                                   result |-> run(Settled(ret))]], Void)
  /\ UNCHANGED <<net, nerr, remoteAddrs>>
  /\ Same

postExpressRouteCreate_call ==
  /\ calls = 0
  /\ \E b \in {NoRouteBody, [NoRouteBody EXCEPT !.receiptAddressId = "da1",
                                                !.bankAccountId = "bank1"]} :
     \E parsed \in {TRUE, b # NoRouteBody} :
       Start("postExpressRouteCreate", "start",
             [body |-> b, parsed |-> parsed, res |-> NoResponse])

\* a request to a path under /api that no route matches, and a request whose
\* JSON body does not parse (express.json() calls next(err))
unmatched_respond ==
  /\ At("unmatched", "respond")
  /\ Return([Top.l EXCEPT !.res = IF Top.l.parses THEN apiFallback
                                  ELSE errorHandler(BadJsonMsg)], Void)
  /\ UNCHANGED <<net, nerr, remoteAddrs>>
  /\ Same

unmatched_call ==
  /\ calls = 0
  /\ \E parses \in BOOLEAN :
       Start("unmatched", "respond", [parses |-> parses, res |-> NoResponse])

(***************************************************************************)
(* Entry points: the main CLI (index.ts) and GET /api/balance              *)
(***************************************************************************)
\* args[i] of process.argv.slice(2)
Arg(args, i) == IF i + 1 <= Len(args) THEN args[i + 1] ELSE Undefined

\* process.exit(code); StillRunning stands for a process that has not ended
StillRunning == 0 - 1
Exit(l, code) == Return([l EXCEPT !.exitCode = code], Void)

\* CircleMintTester.testGetBalance: getBalance in try/catch; the catch logs
\* the error and returns
testGetBalance_start ==
  /\ At("testGetBalance", "start")
  /\ Await("balance_ret", Top.l, "getBalance", "primary", [params |-> NoParams, error |-> NoErr])
  /\ UNCHANGED <<net, nerr, remoteAddrs>>
  /\ Same

testGetBalanceCatches(l) == Return([l EXCEPT !.error = ret.err], Void)

testGetBalance_ret ==
  /\ At("testGetBalance", "balance_ret") /\ ret.kind # "none"
  /\ IF ret.kind = "throw" THEN testGetBalanceCatches(Top.l) ELSE Return(Top.l, Void)
  /\ UNCHANGED <<net, nerr, remoteAddrs>>
  /\ Same

\* a required positional argument of the command is missing
mainMissingArgument(args) ==
  \/ /\ Arg(args, 0) = "payouts" /\ Arg(args, 1) = "create"
     /\ Falsy(Arg(args, 2)) \/ Falsy(Arg(args, 3)) \/ Falsy(Arg(args, 4))
  \/ /\ Arg(args, 0) = "withdraw"
     /\ Falsy(Arg(args, 1)) \/ Falsy(Arg(args, 2))
  \/ /\ Arg(args, 0) = "express-route" /\ Arg(args, 1) = "create"
     /\ Falsy(Arg(args, 2)) \/ Falsy(Arg(args, 3))

\* main of index.ts: the credential check, then the command
main_start ==
  /\ At("main", "start")
  /\ LET args == Top.l.args IN
     IF Falsy(apiKey) THEN Exit(Top.l, 1)
     ELSE IF mainMissingArgument(args) THEN Exit(Top.l, 1)
     ELSE IF Arg(args, 0) = "balance"
     THEN Await("command_ret", Top.l, "testGetBalance", "start", [error |-> NoErr])
     ELSE IF Arg(args, 0) = "payouts"
     THEN Await("command_ret", Top.l, "testCreatePayout", "create",
                [params |-> [address |-> Arg(args, 2), chain |-> Arg(args, 3),
                             amount |-> Arg(args, 4), currency |-> Arg(args, 5)],
                 error |-> NoErr])
     ELSE IF Arg(args, 0) = "withdraw"
     THEN Await("command_ret", Top.l, "businessPayout", "create",
                [params |-> [destinationType |-> "wire", destinationId |-> Arg(args, 1),
                             amount |-> toFixed2(parseFloat(Arg(args, 2))),
                             currency |-> IF Falsy(Arg(args, 3)) THEN "USD" ELSE Arg(args, 3),
                             walletId |-> Undefined]])
     ELSE Await("command_ret", Top.l, "createExpressRoute", "create",
                Callee([receiptAddressId |-> Arg(args, 2), bankAccountId |-> Arg(args, 3),
                        destinationType |-> Nullish(Arg(args, 4), "wire"),
                        currency |-> Nullish(Arg(args, 5), "USD")]))
  /\ UNCHANGED <<net, nerr, remoteAddrs>>
  /\ Same

\* main of index.ts: catch (error) { process.exit(1) }; otherwise main returns
\* and the process ends with code 0
main_ret ==
  /\ At("main", "command_ret") /\ ret.kind # "none"
  /\ Exit(Top.l, IF ret.kind = "throw" THEN 1 ELSE 0)
  /\ UNCHANGED <<net, nerr, remoteAddrs>>
  /\ Same

CommandLines ==
  { <<"balance">>,
    <<"payouts", "create", "0xabc", "ETH", "1.00">>, <<"payouts", "create", "0xabc", "ETH">>,
    <<"withdraw", "bank1", "100.00">>, <<"withdraw", "bank1">>,
    <<"express-route", "create", "da1", "bank1">>, <<"express-route", "create", "da1">> }

main_call ==
  /\ calls = 0
  /\ \E args \in CommandLines :
       Start("main", "start", [args |-> args, exitCode |-> StillRunning])

\* GET /api/balance: send(res, await run(() => client.getBalance()))
getApiBalance_start ==
  /\ At("getApiBalance", "start")
  /\ Await("balance_ret", Top.l, "getBalance", "primary", [params |-> NoParams, error |-> NoErr])
  /\ UNCHANGED <<net, nerr, remoteAddrs>>
  /\ Same

getApiBalance_send ==
  /\ At("getApiBalance", "balance_ret") /\ ret.kind # "none"
  /\ Return([Top.l EXCEPT !.res = [status |-> send(run(Settled(ret))),
                                   result |-> run(Settled(ret))]], Void)
  /\ UNCHANGED <<net, nerr, remoteAddrs>>
  /\ Same

getApiBalance_call ==
  /\ calls = 0
  /\ Start("getApiBalance", "start", [res |-> NoResponse])

(***************************************************************************)
(* Dashboard: event streams and webhooks                                   *)
(***************************************************************************)
\* sseClients.forEach(c => c.res.write(payload)): the streams afterwards
RECURSIVE pushEvent(_, _, _)
pushEvent(clients, written, payload) ==
  IF clients = <<>> THEN written
  ELSE pushEvent(Tail(clients), [written EXCEPT ![Head(clients).res] = Append(@, payload)],
                 payload)

\* sseClients.findIndex(c => c.id === id), 0 for -1
RECURSIVE findIndex(_, _)
findIndex(clients, id) ==
  IF clients = <<>> THEN 0
  ELSE IF clients[Len(clients)].id = id /\ findIndex(SubSeq(clients, 1, Len(clients) - 1), id) = 0
       THEN Len(clients)
       ELSE findIndex(SubSeq(clients, 1, Len(clients) - 1), id)

\* clients.splice(idx, 1)
splice(clients, idx) == SubSeq(clients, 1, idx - 1) \o SubSeq(clients, idx + 1, Len(clients))

ConnectedEvent(id) == [event |-> "connected", data |-> id, timestamp |-> 0]
NotificationEvent(t, body) == [event |-> "notification", data |-> body, timestamp |-> t]

\* GET /api/events: register the response as a listener and greet it
getEvents ==
  /\ Len(conns) < MaxConns
  /\ LET k == Len(conns) + 1
         client == [id |-> "sse-" \o ToString(k), res |-> k]
     IN /\ sseClients' = Append(sseClients, client)
        /\ streams' = Append(streams, <<ConnectedEvent(client.id)>>)
        /\ conns' = Append(conns, [id |-> client.id, open |-> TRUE, since |-> Len(hooks),
                                   until |-> 0])
  /\ UNCHANGED <<clientVars, hooks, console, runs>>

\* the 'close' handler of a connection: the listener remaining after it
closeRemovesLast(clients, id) == SubSeq(clients, 1, Len(clients) - 1)
closeRemoves(clients, id) ==
  LET idx == findIndex(clients, id) IN IF idx # 0 THEN splice(clients, idx) ELSE clients

\* req.on('close')
closeEvents ==
  /\ \E k \in 1..Len(conns) :
       /\ conns[k].open
       /\ sseClients' = closeRemoves(sseClients, conns[k].id)
       /\ conns' = [conns EXCEPT ![k].open = FALSE, ![k].until = Len(hooks)]
  /\ UNCHANGED <<clientVars, streams, hooks, console, runs>>

WebhookBodies == {"p1", "p2"}

\* what POST /webhooks writes: to the first listener only
postWebhooksWritesFirst(body) ==
  IF sseClients = <<>> THEN streams
  ELSE pushEvent(<<sseClients[1]>>, streams, NotificationEvent(now, body))
\* what POST /webhooks writes
postWebhooksWrites(body) == pushEvent(sseClients, streams, NotificationEvent(now, body))

\* POST /webhooks: pushEvent('notification', ..), res.sendStatus(200)
postWebhooks ==
  /\ Len(hooks) < MaxHooks
  /\ \E body \in WebhookBodies :
       /\ streams' = postWebhooksWrites(body)
       /\ hooks' = Append(hooks, [body |-> body, timestamp |-> now, status |-> 200])
  /\ UNCHANGED <<clientVars, sseClients, conns, console, runs>>

(***************************************************************************)
(* Dashboard: run() and the console                                        *)
(***************************************************************************)
\* a console method is called with `line` while it is the capture function of
\* run c (the original function for c = 0): capture pushes the line to its
\* own logs and calls orig.log, the function it replaced
RECURSIVE capture(_, _, _)
capture(c, rs, line) ==
  IF c = 0 THEN rs
  ELSE capture(rs[c].orig, [rs EXCEPT ![c].logs = Append(@, line)], line)

\* run(fn), up to `await fn()`: remember the console functions, install the
\* capture functions, call fn
run_begin ==
  /\ Len(runs) < MaxRuns
  /\ runs' = Append(runs, [orig |-> console, logs |-> <<>>, emitted |-> 0, pc |-> "await",
                           result |-> <<>>])
  /\ console' = Len(runs) + 1
  /\ UNCHANGED <<clientVars, sseClients, streams, conns, hooks>>

\* the operation of run r writes a line to the console
run_log ==
  /\ \E r \in 1..Len(runs) :
       /\ runs[r].pc = "await" /\ runs[r].emitted < MaxLines
       /\ runs' = capture(console, [runs EXCEPT ![r].emitted = @ + 1],
                          [by |-> r, n |-> runs[r].emitted + 1])
  /\ UNCHANGED <<clientVars, sseClients, streams, conns, hooks, console>>

\* run(fn), after `await fn()`: Object.assign(console, orig); return {logs, ..}
run_end ==
  /\ \E r \in 1..Len(runs) :
       /\ runs[r].pc = "await"
       /\ console' = runs[r].orig
       /\ runs' = [runs EXCEPT ![r].pc = "done", ![r].result = runs[r].logs]
  /\ UNCHANGED <<clientVars, sseClients, streams, conns, hooks>>

(***************************************************************************)
(* Specification of the client's public methods                            *)
(***************************************************************************)
BaseUrls == {"https://api-sandbox.circle.com", "http://localhost:8080"}

\* the deposit addresses the remote may hold before the first call
RemoteInits ==
  UNION { { [i \in 1..n |-> AddrAt(i, cs[i])] : cs \in [1..n -> Chains] } : n \in 0..MaxAddrs }

NoPrev == [fn |-> "", l |-> [params |-> NoParams], ret |-> NoRet, keys |-> <<>>, net |-> <<>>]

\* the credential of a configured installation
ConfiguredKey == "SAND_API_KEY"

InitCall ==
  /\ stack = <<>>
  /\ ret = NoRet
  /\ net = <<>>
  /\ nerr = 0
  /\ nuuid = 0
  /\ now = 0
  /\ calls = 0
  /\ prev = NoPrev
  /\ timers = <<>>
  /\ sseClients = <<>>
  /\ streams = <<>>
  /\ conns = <<>>
  /\ hooks = <<>>
  /\ console = 0
  /\ runs = <<>>

Init ==
  /\ InitCall
  /\ apiKey = ConfiguredKey

InitClient ==
  /\ Init
  /\ baseUrl \in BaseUrls
  /\ remoteAddrs \in RemoteInits

NextClient ==
  \/ simple_call \/ simple_request
  \/ getBalance_call \/ getBalance_primary \/ getBalance_secondary
  \/ listDepositAddresses_call \/ listDepositAddresses_primary \/ listDepositAddresses_secondary
  \/ getDeposit_call \/ getDeposit_primary \/ getDeposit_secondary
  \/ listDeposits_call \/ listDeposits_primary \/ listDeposits_secondary
  \/ createDepositAddressLegacy_call \/ createDepositAddressLegacy_primary
  \/ createDepositAddressLegacy_secondary
  \/ getSupportedChains_call \/ getSupportedChains_config

SpecClient == InitClient /\ [][NextClient]_vars

ClientMethods ==
  SimpleCalls \cup {"getBalance", "listDepositAddresses", "getDeposit", "listDeposits",
                    "createDepositAddressLegacy", "getSupportedChains"}

\* C1: with a base URL that does not start with 'https://', every public
\* method of the client rejects and no fetch is issued.
C1_NonHttpsRejectsWithoutFetch ==
  \A fn \in ClientMethods :
    (Done(fn) /\ ~StartsWith(baseUrl, "https://")) => (ret.kind = "throw" /\ net = <<>>)

\* C2: getBalance, when /v1/balances answers 404, issues a second request to
\* /v1/businessAccount/balances and returns its result when it succeeds.
C2_BalanceFallsBackOn404 ==
  (Done("getBalance") /\ Len(net) >= 1 /\ ~net[1].ok /\ StartsWith(net[1].message, ApiMsg(404, "")))
    => /\ net[1].endpoint = "/v1/balances"
       /\ Len(net) = 2
       /\ net[2].method = "GET"
       /\ net[2].endpoint = "/v1/businessAccount/balances"
       /\ net[2].ok => ret = Ok(net[2].val)

C2_Witness ==
  /\ Done("getBalance") /\ Len(net) = 2
  /\ StartsWith(net[1].message, ApiMsg(404, ""))
  /\ net[2].ok /\ ret = Ok(Json([NoRec EXCEPT !.id = "secondary"]))

\* both the primary and the secondary request of the completed call failed
BothFailed(fn) == Done(fn) /\ stack[1].l.error # NoErr /\ nerr >= 2

\* C3 as stated: when both requests fail the caller receives the Error object
\* raised by the primary request.
C3_OriginalErrorRethrown ==
  \A fn \in {"getBalance", "listDepositAddresses", "listDeposits", "getDeposit",
             "createDepositAddressLegacy"} :
    BothFailed(fn) => ret = Thrown(stack[1].l.error)

\* C3 as amended: getBalance and getDeposit rethrow the primary Error object;
\* listDepositAddresses, listDeposits and the legacy createDepositAddress throw
\* a new Error that is neither the primary's nor the secondary's and whose
\* message embeds the primary's message (for the legacy method a fixed hint
\* replaces it when it contains '422').
C3_OriginalErrorKept ==
  /\ \A fn \in {"getBalance", "getDeposit"} :
       BothFailed(fn) => ret = Thrown(stack[1].l.error)
  /\ \A fn \in {"listDepositAddresses", "listDeposits"} :
       BothFailed(fn) =>
         /\ ret.kind = "throw"
         /\ ret.err.id \notin {stack[1].l.error.id, stack[1].l.error.id + 1}
         /\ EndsWith(ret.err.message, "Original error: " \o stack[1].l.error.message)
  /\ BothFailed("createDepositAddressLegacy") =>
         /\ ret.kind = "throw"
         /\ ret.err.id \notin {stack[1].l.error.id, stack[1].l.error.id + 1}
         /\ StartsWith(ret.err.message, "Deposit address creation failed: ")
         /\ \/ Includes(ret.err.message, stack[1].l.error.message)
            \/ Includes(stack[1].l.error.message, "422")

C3_Witness ==
  /\ BothFailed("listDeposits")
  /\ ret.err.id = 3
  /\ Len(net) = 2 /\ ~net[1].ok /\ ~net[2].ok

(***************************************************************************)
(* Specification of the express-route tester                               *)
(***************************************************************************)
HttpsUrl == "https://api-sandbox.circle.com"

InitRoute ==
  /\ Init
  /\ baseUrl = HttpsUrl
  /\ remoteAddrs \in RemoteInits

InitFlow ==
  /\ Init
  /\ baseUrl = HttpsUrl
  /\ remoteAddrs \in {r \in RemoteInits : Len(r) <= 1}

StepsRoute ==
  \/ linkBankAccount_create \/ linkBankAccount_list
  \/ linkReceiptAddress_create \/ linkReceiptAddress_list
  \/ initiateMockDeposit_create
  \/ initiateOnChainDeposit_create
  \/ initiateOnChainTransfer_create
  \/ initiateWithdrawal_create
  \/ createExpressRoute_create \/ createExpressRoute_list

NextRoute ==
  \/ linkBankAccount_call \/ linkReceiptAddress_call \/ initiateMockDeposit_call
  \/ initiateOnChainDeposit_call \/ initiateOnChainTransfer_call
  \/ initiateWithdrawal_call \/ createExpressRoute_call
  \/ StepsRoute

SpecRoute == InitRoute /\ [][NextRoute]_vars

NextFlow ==
  \/ runFullFlow_call
  \/ runFullFlow_step1 \/ runFullFlow_step1_ret
  \/ runFullFlow_step2 \/ runFullFlow_step2_ret
  \/ runFullFlow_step3 \/ runFullFlow_step3_ret
  \/ runFullFlow_step4_ret \/ runFullFlow_step5_ret
  \/ runFullFlow_step6_ret \/ runFullFlow_step7_ret
  \/ StepsRoute

SpecFlow == InitFlow /\ [][NextFlow]_vars

(***************************************************************************)
(* Specification of the payout operations                                  *)
(***************************************************************************)
InitPayout ==
  /\ Init
  /\ baseUrl \in BaseUrls
  /\ remoteAddrs = <<>>

NextPayout ==
  \/ createTransfer_call \/ createTransfer_start
  \/ checkBalance_start
  \/ getBalance_primary \/ getBalance_secondary
  \/ checkBalance_ret
  \/ createTransfer_recipient \/ createTransfer_payout
  \/ testCreatePayout_call \/ testCreatePayout_create
  \/ postPayouts_call \/ postPayouts_createPayout
  \/ businessPayout_call \/ businessPayout_create
  \/ postPayoutsWire_call \/ postPayoutsWire_start \/ postPayoutsWire_send
  \/ tick

SpecPayout == InitPayout /\ [][NextPayout]_vars

(***************************************************************************)
(* Specification of repeated create operations                             *)
(***************************************************************************)
\* the create operations that are invoked again
Repeated == {"createTransfer", "businessPayout", "linkBankAccount", "initiateWithdrawal"}

\* the same operation is invoked again with the same arguments, after an
\* invocation that sent a create request
invoke_again ==
  /\ calls >= 1 /\ calls < MaxCalls
  /\ stack # <<>> /\ stack[1].fn \in Repeated
  /\ KeysOf(net) # <<>>
  /\ LET fn == stack[1].fn
         params == stack[1].l.params
     IN IF fn = "createTransfer"
        THEN Start(fn, "start", [params |-> params, recipientId |-> Undefined])
        ELSE IF fn = "businessPayout"
        THEN Start(fn, "create", [params |-> params])
        ELSE Start(fn, "create", Callee(params))

NextKeys ==
  \/ createTransfer_call \/ createTransfer_start
  \/ checkBalance_start \/ checkBalance_ret
  \/ getBalance_primary \/ getBalance_secondary
  \/ createTransfer_recipient \/ createTransfer_payout
  \/ businessPayout_call \/ businessPayout_create
  \/ linkBankAccount_call \/ linkBankAccount_create \/ linkBankAccount_list
  \/ initiateWithdrawal_call \/ initiateWithdrawal_create
  \/ invoke_again
  \/ tick

SpecKeys == InitPayout /\ [][NextKeys]_vars

(***************************************************************************)
(* Specification of all operations that create something on the remote     *)
(***************************************************************************)
NextCreates ==
  \/ NextFlow
  \/ NextPayout
  \/ recipientAddress_create
  \/ postRecipients_call \/ postRecipients_start \/ postRecipients_send
  \/ postSubscriptions_call \/ postSubscriptions_create

SpecCreates == InitFlow /\ [][NextCreates]_vars

(***************************************************************************)
(* Specification of runTestFlow                                            *)
(***************************************************************************)
NextTestFlow ==
  \/ runTestFlow_call
  \/ runTestFlow_step1
  \/ checkBalance_start \/ getBalance_primary \/ getBalance_secondary \/ checkBalance_ret
  \/ runTestFlow_step2 \/ tester_request \/ runTestFlow_address_ret
  \/ runTestFlow_step3 \/ runTestFlow_transfer
  \/ recipientAddress_create \/ runTestFlow_recipient_ret \/ runTestFlow_propagation
  \/ runTestFlow_business \/ runTestFlow_business_ret
  \/ createTransfer_start \/ createTransfer_recipient \/ createTransfer_payout
  \/ runTestFlow_manual_ret
  \/ runTestFlow_status \/ runTestFlow_status_ret

SpecTestFlow == InitFlow /\ [][NextTestFlow]_vars

(***************************************************************************)
(* Specification of the dashboard's event streams                          *)
(***************************************************************************)
InitEvents ==
  /\ Init
  /\ baseUrl = HttpsUrl
  /\ remoteAddrs = <<>>

\* the server's clock moves on between requests
serverTick ==
  /\ now < MaxNow
  /\ now' = now + 1
  /\ UNCHANGED <<baseUrl, apiKey, stack, ret, net, nerr, nuuid, remoteAddrs, calls, prev, timers, serverVars>>

NextEvents == getEvents \/ closeEvents \/ postWebhooks \/ serverTick

SpecEvents == InitEvents /\ [][NextEvents]_vars

(***************************************************************************)
(* Specification of overlapping dashboard API requests                     *)
(***************************************************************************)
NextConsole == run_begin \/ run_log \/ run_end

SpecConsole == InitEvents /\ [][NextConsole]_vars

(***************************************************************************)
(* Specification of the dashboard's API routes                             *)
(***************************************************************************)
NextDashboard ==
  \/ postPayouts_call \/ postPayouts_createPayout
  \/ postPayoutsWire_call \/ postPayoutsWire_start \/ businessPayout_create
  \/ postPayoutsWire_send
  \/ postRecipients_call \/ postRecipients_start \/ recipientAddress_create
  \/ postRecipients_send
  \/ postSubscriptions_call \/ postSubscriptions_create
  \/ postExpressRouteCreate_call \/ postExpressRouteCreate_start
  \/ createExpressRoute_create \/ createExpressRoute_list
  \/ postExpressRouteCreate_send
  \/ unmatched_call \/ unmatched_respond

SpecDashboard == InitPayout /\ [][NextDashboard]_vars

(***************************************************************************)
(* Specification of the entry points                                       *)
(***************************************************************************)
ApiKeys == {"", ConfiguredKey}

InitEntry ==
  /\ InitCall
  /\ apiKey \in ApiKeys
  /\ baseUrl = HttpsUrl
  /\ remoteAddrs = <<>>

NextEntry ==
  \/ main_call \/ main_start
  \/ testGetBalance_start \/ getBalance_primary \/ getBalance_secondary \/ testGetBalance_ret
  \/ testCreatePayout_create
  \/ businessPayout_create
  \/ createExpressRoute_create \/ createExpressRoute_list
  \/ main_ret
  \/ getApiBalance_call \/ getApiBalance_start \/ getApiBalance_send

SpecEntry == InitEntry /\ [][NextEntry]_vars

(***************************************************************************)
(* Properties of the express-route tester                                  *)
(***************************************************************************)
\* the completed call made two exchanges: a create that failed with a
\* duplicate-style message, then a listing that succeeded
DuplicateThenListed(fn) ==
  /\ Done(fn) /\ Len(net) = 2
  /\ net[1].method = "POST" /\ ~net[1].ok
  /\ Includes(net[1].message, "already") \/ Includes(net[1].message, "2023")
  /\ net[2].method = "GET" /\ net[2].ok

\* C4: linkBankAccount, when createWireBankAccount fails with an
\* already-exists error, asks listWireBankAccounts, and when that returns at
\* least one account it returns {data: first listed account}.
C4_ReusesFirstListedBank ==
  ( /\ Done("linkBankAccount")
    /\ Len(net) >= 1 /\ ~net[1].ok
    /\ Includes(net[1].message, "already") \/ Includes(net[1].message, "2023") )
  => /\ Len(net) = 2
     /\ net[2].method = "GET" /\ net[2].endpoint = "/v1/businessAccount/banks/wires"
     /\ (net[2].ok /\ net[2].val.items # <<>>) => ret = Ok(Json(net[2].val.items[1]))

C4_Witness ==
  /\ DuplicateThenListed("linkBankAccount")
  /\ Includes(net[1].message, "already")
  /\ Len(net[2].val.items) = 2
  /\ ret = Ok(Json(Bank(2)))

\* the chain a linkReceiptAddress frame asks for
RequestedChain(l) == Nullish(l.params.chain, "ETH")

ConflictHandlers == {"linkBankAccount", "linkReceiptAddress", "createExpressRoute"}

C6_WitnessReject ==
  /\ DuplicateThenListed("linkReceiptAddress") /\ net[2].val.items = <<>>
  /\ ret.kind = "throw"

(***************************************************************************)
(* Properties of runFullFlow                                               *)
(***************************************************************************)
InFlow == stack # <<>> /\ stack[1].fn = "runFullFlow"

IsInstructions(x) == x.method = "GET" /\ EndsWith(x.endpoint, "/instructions")
IsMockWire(x) == x.method = "POST" /\ x.endpoint = "/v1/mocks/payments/wire"

\* C7: if the wire instructions lack the tracking reference or the
\* beneficiary account number, runFullFlow rejects with a descriptive error
\* and issues no further request; every mock wire payment of runFullFlow
\* carries the non-empty tracking reference and account number of the
\* instructions fetched just before it.
C7_NoMockDepositWithoutInstructions ==
  InFlow =>
    /\ \A i \in 1..Len(net) :
         ( /\ IsInstructions(net[i]) /\ net[i].ok
           /\ Falsy(net[i].val.data.trackingRef) \/ Falsy(net[i].val.data.accountNumber) )
         => /\ Len(net) = i
            /\ Done("runFullFlow")
            /\ ret.kind = "throw"
            /\ ret.err.message =
                 IF Falsy(net[i].val.data.trackingRef)
                 THEN "Could not retrieve tracking ref from wire instructions"
                 ELSE "Could not retrieve beneficiary account number from wire instructions"
    /\ \A i \in 1..Len(net) :
         IsMockWire(net[i]) =>
           /\ i > 1 /\ IsInstructions(net[i - 1]) /\ net[i - 1].ok
           /\ net[i].body.trackingRef = net[i - 1].val.data.trackingRef
           /\ net[i].body.beneficiaryBank.accountNumber = net[i - 1].val.data.accountNumber
           /\ net[i].body.trackingRef \notin {"", Undefined}
           /\ net[i].body.beneficiaryBank.accountNumber \notin {"", Undefined}

C7_Witness ==
  /\ Done("runFullFlow")
  /\ ret.kind = "throw"
  /\ ret.err.message = "Could not retrieve beneficiary account number from wire instructions"
  /\ IsInstructions(net[Len(net)])
  /\ net[Len(net)].val.data.trackingRef = "CIR3"

\* the place of an exchange in the order of the requests of runFullFlow
Position(x) ==
  IF x.endpoint = "/v1/businessAccount/banks/wires" THEN (IF x.method = "POST" THEN 1 ELSE 2)
  ELSE IF x.endpoint = "/v1/businessAccount/wallets/addresses/deposit"
  THEN (IF x.method = "POST" THEN 3 ELSE 4)
  ELSE IF IsInstructions(x) THEN 5
  ELSE IF IsMockWire(x) THEN 6
  ELSE IF x.endpoint = "/v1/mocks/payments/blockchain" THEN 7
  ELSE IF x.endpoint = "/v1/businessAccount/transfers" THEN 8
  ELSE IF x.endpoint = "/v1/businessAccount/payouts" THEN 9
  ELSE IF x.endpoint = "/v1/businessAccount/expressRoute"
  THEN (IF x.method = "POST" THEN 10 ELSE 11)
  ELSE 0

\* the method of the tester a suspended runFullFlow frame is waiting for
AwaitedBy(pc) ==
  CASE pc = "step1_ret" -> "linkBankAccount"
    [] pc = "step2_ret" -> "linkReceiptAddress"
    [] pc = "step3_ret" -> "initiateMockDeposit"
    [] pc = "step4_ret" -> "initiateOnChainDeposit"
    [] pc = "step5_ret" -> "initiateOnChainTransfer"
    [] pc = "step6_ret" -> "initiateWithdrawal"
    [] pc = "step7_ret" -> "createExpressRoute"
    [] OTHER -> "none"

\* the answers the exchanges at the given positions got, as lists of records
Answered(positions) ==
  { IF net[i].method = "POST" THEN <<net[i].val.data>> ELSE net[i].val.items :
      i \in {j \in 1..Len(net) : Position(net[j]) \in positions /\ net[j].ok} }

\* the bank account id of the flow: the supplied one, else the one step 1 obtained
FlowBankIds ==
  LET supplied == stack[1].l.params.existingBankId IN
  IF ~Falsy(supplied) THEN {supplied}
  ELSE {xs[1].id : xs \in {ys \in Answered({1, 2}) : ys # <<>>}}

\* the deposit address of the flow: the supplied pair, else one step 2 obtained
FlowAddresses ==
  LET p == stack[1].l.params IN
  IF ~Falsy(p.existingDepositAddressId) /\ ~Falsy(p.existingDepositAddress)
  THEN {[NoRec EXCEPT !.id = p.existingDepositAddressId, !.address = p.existingDepositAddress]}
  ELSE UNION {{xs[k] : k \in 1..Len(xs)} : xs \in Answered({3, 4})}

\* C8: the requests of runFullFlow are issued one at a time, in the order
\* link bank account, link deposit address, wire instructions, mock wire
\* deposit, mock on-chain deposit, optional on-chain transfer, wire
\* withdrawal, express route; and the bank account id and the deposit address
\* (id and address) obtained or supplied in steps 1 and 2 are the values
\* steps 3, 4, 6 and 7 pass on.
C8_StepsInOrderWithObtainedIds ==
  InFlow =>
    /\ \A i \in 1..Len(net) : Position(net[i]) > 0
    /\ \A i \in 1..Len(net), j \in 1..Len(net) :
         i < j => Position(net[i]) < Position(net[j])
    /\ Len(stack) <= 2
    /\ Len(stack) = 2 => stack[2].fn = AwaitedBy(stack[1].pc)
    /\ (\E i \in 1..Len(net) : Position(net[i]) >= 5) =>
         \E b \in FlowBankIds : \E a \in FlowAddresses :
           \A i \in 1..Len(net) :
             /\ Position(net[i]) = 5 =>
                  net[i].endpoint = "/v1/businessAccount/banks/wires/" \o b \o "/instructions"
             /\ Position(net[i]) = 7 =>
                  /\ net[i].body.address = a.address
                  /\ net[i].body.chain = stack[1].l.chain
             /\ Position(net[i]) = 8 =>
                  net[i].body.destination.addressId = stack[1].l.params.existingRecipientId
             /\ Position(net[i]) = 9 => net[i].body.destination.id = b
             /\ Position(net[i]) = 10 =>
                  /\ net[i].body.receiptAddressId = a.id
                  /\ net[i].body.destinationBankAccountId = b

C8_Witness ==
  /\ Done("runFullFlow") /\ ret.kind = "ok"
  /\ stack[1].l.params.existingBankId = Undefined
  /\ stack[1].l.params.existingDepositAddressId = Undefined
  /\ stack[1].l.params.existingRecipientId = "r1"
  /\ Len(net) = 8
  /\ Position(net[8]) = 10 /\ net[8].ok
  /\ net[8].body.receiptAddressId = net[2].val.data.id
  /\ net[8].body.destinationBankAccountId = net[1].val.data.id

(***************************************************************************)
(* Properties of the payout operations                                     *)
(***************************************************************************)
IsPayout(x) == x.method = "POST" /\ x.endpoint = "/v1/payouts"
IsRecipient(x) == x.method = "POST" /\ x.endpoint = "/v1/addressBook/recipients"

\* C9: in createTransfer a createPayout request is issued only after a
\* createAddressBookRecipient request succeeded and returned an id, and the
\* payout's destination is {type: 'address_book', id: that id}; if the
\* address book response carries no id, createTransfer rejects and issues no
\* payout request.
C9_PayoutOnlyToCreatedRecipient ==
  (stack # <<>> /\ stack[1].fn = "createTransfer") =>
    /\ \A i \in 1..Len(net) :
         IsPayout(net[i]) =>
           /\ i > 1 /\ IsRecipient(net[i - 1]) /\ net[i - 1].ok
           /\ net[i - 1].val.data.id \notin {"", Undefined}
           /\ net[i].body.destination =
                [type |-> "address_book", id |-> net[i - 1].val.data.id]
    /\ \A j \in 1..Len(net) :
         (IsRecipient(net[j]) /\ net[j].ok /\ net[j].val.data.id \in {"", Undefined}) =>
           /\ Len(net) = j
           /\ Done("createTransfer")
           /\ ret.kind = "throw"
           /\ ret.err.message = NoRecipientMsg

C9_Witness ==
  /\ Done("createTransfer") /\ ret.kind = "ok"
  /\ IsPayout(net[Len(net)]) /\ net[Len(net)].ok
  /\ net[Len(net)].body.destination = [type |-> "address_book", id |-> "ab1"]

C9_WitnessNoId ==
  /\ Done("createTransfer") /\ ret.kind = "throw" /\ ret.err.message = NoRecipientMsg
  /\ IsRecipient(net[Len(net)]) /\ net[Len(net)].ok

\* the caller named a raw blockchain address as the destination of the payout
RawAddressGiven ==
  \/ Done("createTransfer") /\ StartsWith(stack[1].l.params.recipientAddress, "0x")
  \/ Done("testCreatePayout") /\ StartsWith(stack[1].l.params.address, "0x")
  \/ Done("postPayouts") /\ StartsWith(Nullish(stack[1].l.body.recipientId, ""), "0x")

\* the completed operation reported an error to its caller
ErrorReported ==
  \/ Done("createTransfer") /\ ret.kind = "throw"
  \/ Done("testCreatePayout") /\ stack[1].l.error # NoErr
  \/ Done("postPayouts") /\ stack[1].l.res.status = 400

\* C10: a crypto payout whose destination is a raw blockchain address fails
\* fast in createTransfer, testCreatePayout and POST /api/payouts: the
\* operation reports an error and no request reaches the remote API.
C10_RawAddressFailsFast ==
  RawAddressGiven => (ErrorReported /\ net = <<>>)

\* the request by which testCreatePayout hands a raw address to the remote API
C10_RawAddressSent ==
  /\ Done("testCreatePayout")
  /\ Len(net) = 1 /\ IsPayout(net[1]) /\ net[1].ok
  /\ net[1].body.destination = [type |-> "address", address |-> "0xabc", chain |-> "ETH"]
  /\ stack[1].l.error = NoErr

\* the amount is absent or does not read as a number
NotNumeric(amount) == amount = Undefined \/ parseFloat(amount).nan

\* C11: an operation given a malformed or absent amount rejects before any
\* request reaches the remote API: createTransfer with an amount that does not
\* match the decimal format, POST /api/payouts and POST /api/payouts/wire with
\* a non-numeric or absent amount.
C11_BadAmountRejectedBeforeNetwork ==
  /\ ( /\ Done("createTransfer")
       /\ createTransferAmountProblem(stack[1].l.params.amount) # "" )
     => (ret.kind = "throw" /\ net = <<>>)
  /\ \A fn \in {"postPayouts", "postPayoutsWire"} :
       (Done(fn) /\ NotNumeric(stack[1].l.body.amount))
         => (stack[1].l.res.status >= 400 /\ net = <<>>)

\* the request POST /api/payouts sends for the amount 'abc'
C11_NaNSent ==
  /\ Done("postPayouts") /\ stack[1].l.body.amount = "abc"
  /\ Len(net) = 1 /\ net[1].body.amount.amount = "NaN"

(***************************************************************************)
(* Properties of the idempotency keys                                      *)
(***************************************************************************)
\* the keys in the sequence ks are pairwise different
Distinct(ks) == \A i \in 1..Len(ks), j \in 1..Len(ks) : i # j => ks[i] # ks[j]

\* C12: any two invocations of a create operation send different idempotency
\* keys, however close together in time: the random keys of the express-route
\* steps and the timestamp keys of createTransfer and createBusinessPayout.
C12_KeysDifferBetweenInvocations ==
  Distinct(prev.keys \o KeysOf(net))

\* two invocations of createBusinessPayout within one millisecond
C12_SameKeyTwice ==
  /\ Done("businessPayout") /\ prev.fn = "businessPayout"
  /\ Len(net) = 1 /\ net[1].ok /\ prev.ret.kind = "ok"
  /\ prev.keys = <<"business-payout-0">>
  /\ KeysOf(net) = <<"business-payout-0">>

\* the random keys of two invocations of an express-route step differ
C12_RandomKeysDiffer ==
  (stack # <<>> /\ stack[1].fn \in {"linkBankAccount", "initiateWithdrawal"})
    => Distinct(prev.keys \o KeysOf(net))

\* the create endpoints whose client methods take no idempotency key
Keyless == {"/v1/mocks/payments/wire", "/v1/mocks/payments/blockchain",
            "/v1/notifications/subscriptions"}

HasKey(x) == "idempotencyKey" \in DOMAIN x.body /\ ~Falsy(x.body.idempotencyKey)

\* C13 as stated: every POST request sent to the remote API carries an
\* idempotency key.
C13_EveryCreateCarriesKey ==
  \A i \in 1..Len(net) : net[i].method = "POST" => HasKey(net[i])

\* C13 as amended: every POST request carries a non-empty idempotency key,
\* except mock wire payments, mock blockchain deposits and notification
\* subscriptions, which carry none.
C13_CreatesCarryKeyExceptMocks ==
  \A i \in 1..Len(net) :
    net[i].method = "POST" => (HasKey(net[i]) <=> net[i].endpoint \notin Keyless)

C13_Witness ==
  /\ Done("runFullFlow") /\ ret.kind = "ok"
  /\ \E i \in 1..Len(net) : IsMockWire(net[i]) /\ ~HasKey(net[i])
  /\ \E i \in 1..Len(net) : Position(net[i]) = 10 /\ HasKey(net[i])
  /\ \E i \in 1..Len(net) : Position(net[i]) = 1 /\ HasKey(net[i])

\* digits, a point, two digits
TwoDecimals(s) ==
  LET a == DigitsEnd(s, 1)
  IN a >= 1 /\ Char(s, a + 1) = "." /\ DigitsEnd(s, a + 2) = a + 3 /\ Len(s) = a + 3

IsPayoutCreate(x) ==
  x.method = "POST" /\ x.endpoint \in {"/v1/payouts", "/v1/businessAccount/payouts"}

\* C14 as stated: every amount string sent in a payout or business payout
\* request has exactly two decimal places ('1' is sent as '1.00').
C14_AmountsHaveTwoDecimals ==
  \A i \in 1..Len(net) :
    IsPayoutCreate(net[i]) => TwoDecimals(net[i].body.amount.amount)

\* the business-payout command given '1' sends the amount '1'
C14_OneSentAsIs ==
  /\ Done("businessPayout") /\ Len(stack) = 1 /\ Top.l.params.amount = "1"
  /\ Len(net) = 1 /\ net[1].body.amount.amount = "1"

(***************************************************************************)
(* Properties of runTestFlow                                               *)
(***************************************************************************)
HasLine(l, level, text) == \E i \in 1..Len(l.logged) : l.logged[i] = [level |-> level, text |-> text]

\* the transfer phase has begun: its first statement is the 2 second wait
InTransferPhase == timers # <<>>
LastFailed == Len(net) >= 1 /\ ~net[Len(net)].ok

\* C15: when runTestFlow has ended, (a) if the transfer phase was entered the
\* flow resolved, and a failed request of that phase left a warning or error
\* line; (b) a failed request of the balance check or of the deposit-address
\* lookup or creation made the flow reject with the step's error, and (c)
\* a rejected flow never entered the transfer phase: every request it issued
\* belongs to the required steps.
C15_OptionalCaughtRequiredRejects ==
  Done("runTestFlow") =>
    /\ InTransferPhase =>
         /\ ret.kind = "ok"
         /\ HasLine(Top.l, "log", CompletedLine)
         /\ LastFailed /\ Len(net) > timers[1] =>
              \/ HasLine(Top.l, "warn", AutoFailedLine)
              \/ HasLine(Top.l, "error", ManualFailedLine)
    /\ (~InTransferPhase /\ LastFailed) =>
         /\ ret.kind = "throw"
         /\ \E i \in 1..Len(net) : ~net[i].ok /\ ret.err.message = net[i].message
         /\ HasLine(Top.l, "error", FailedLine)
    /\ ret.kind = "throw" =>
         /\ ~InTransferPhase /\ LastFailed
         /\ \A i \in 1..Len(net) :
              net[i].endpoint \in {"/v1/balances", "/v1/businessAccount/balances",
                                   "/v1/businessAccount/wallets/addresses/deposit"}

\* the status check of the auto transfer failed and the flow resolved
C15_Witness ==
  /\ Done("runTestFlow") /\ ret.kind = "ok"
  /\ Len(timers) = 3 /\ LastFailed
  /\ net[Len(net)].endpoint = "/v1/businessAccount/transfers/obj1"
  /\ HasLine(Top.l, "warn", AutoFailedLine)

\* a failed deposit-address creation made the flow reject
C15_RequiredRejects ==
  /\ Done("runTestFlow") /\ ret.kind = "throw" /\ LastFailed
  /\ net[Len(net)].method = "POST"

\* request i uses the identifier that exchange j returned: in its path, or as
\* the destination of the transfer or payout it creates
UsesIdOf(i, j) ==
  /\ net[j].ok /\ net[j].val.tag = "json" /\ ~Falsy(net[j].val.data.id)
  /\ \/ Includes(net[i].endpoint, "/" \o net[j].val.data.id)
     \/ /\ "destination" \in DOMAIN net[i].body
        /\ \/ /\ "addressId" \in DOMAIN net[i].body.destination
              /\ net[i].body.destination.addressId = net[j].val.data.id
           \/ /\ "id" \in DOMAIN net[i].body.destination
              /\ net[i].body.destination.id = net[j].val.data.id

\* a delay elapsed after exchange j and before request i
DelayBetween(j, i) == \E k \in 1..Len(timers) : j <= timers[k] /\ timers[k] < i

\* C16 as stated: a request that uses an identifier returned by an earlier
\* step is issued only after a delay that followed that step.
C16_DelayBetweenDependentSteps ==
  \A i \in 1..Len(net) : \A j \in 1..(i - 1) : UsesIdOf(i, j) => DelayBetween(j, i)

\* runFullFlow completes all its steps without a single delay
C16_FullFlowNeverWaits ==
  /\ Done("runFullFlow") /\ ret.kind = "ok" /\ timers = <<>>
  /\ \E i \in 1..Len(net) : \E j \in 1..(i - 1) : UsesIdOf(i, j)

(***************************************************************************)
(* Properties of the dashboard's event streams                             *)
(***************************************************************************)
\* the webhooks received while connection k was open, as notification events
RECURSIVE Notifications(_, _)
Notifications(from, to) ==
  IF to <= from THEN <<>>
  ELSE Append(Notifications(from, to - 1), NotificationEvent(hooks[to].timestamp, hooks[to].body))

Heard(k) == Notifications(conns[k].since, IF conns[k].open THEN Len(hooks) ELSE conns[k].until)

C18_ListenersAreOpenConnections ==
  /\ \A k \in 1..Len(conns) :
       Len(SelectSeq(sseClients, LAMBDA c : c.id = conns[k].id))
         = (IF conns[k].open THEN 1 ELSE 0)
  /\ \A i \in 1..Len(sseClients) : \E k \in 1..Len(conns) :
       sseClients[i] = [id |-> conns[k].id, res |-> k]
  /\ \A i, j \in 1..Len(sseClients) : i < j => sseClients[i].res < sseClients[j].res
  /\ \A k \in 1..Len(conns) :
       ~conns[k].open => streams[k] = <<ConnectedEvent(conns[k].id)>> \o Heard(k)

\* the first of three listeners closed, then a webhook arrived
C18_Witness ==
  /\ Len(conns) = 3 /\ ~conns[1].open /\ conns[2].open /\ conns[3].open
  /\ Len(sseClients) = 2
  /\ Len(hooks) >= 1 /\ conns[1].until < Len(hooks) /\ conns[3].since = 0

(***************************************************************************)
(* Properties of run()                                                     *)
(***************************************************************************)
\* the lines the operation of run r has written, in order
OwnLines(r) == [n \in 1..runs[r].emitted |-> [by |-> r, n |-> n]]

\* C19 as stated: the logs returned by a finished request are exactly the
\* lines its own operation wrote.
C19_LogsAreOwnLines ==
  \A r \in 1..Len(runs) : runs[r].pc = "done" => runs[r].result = OwnLines(r)

\* a finished request returned a line of the other request and missed one of
\* its own
C19_LogsLeak ==
  \E r \in 1..Len(runs) :
    /\ runs[r].pc = "done"
    /\ \E i \in 1..Len(runs[r].result) : runs[r].result[i].by # r
    /\ \E n \in 1..runs[r].emitted : \A i \in 1..Len(runs[r].result) :
         runs[r].result[i] # [by |-> r, n |-> n]

(***************************************************************************)
(* Properties of the dashboard's status codes                              *)
(***************************************************************************)
Routes == {"postPayouts", "postPayoutsWire", "postRecipients", "postSubscriptions",
           "postExpressRouteCreate"}
Responded == Len(stack) = 1 /\ stack[1].pc = "done" /\ "res" \in DOMAIN stack[1].l

\* C20 as stated: an unmatched /api request is answered 404 and an error
\* that reaches the error handler 500, both with a JSON error body; and a
\* matched route whose operation ended on a failed remote request answers
\* 400 or above with data null and an error message.
C20_FailuresAreNot2xx ==
  Responded =>
    LET res == stack[1].l.res IN
    /\ stack[1].fn = "unmatched" =>
         /\ res.status = (IF stack[1].l.parses THEN 404 ELSE 500)
         /\ ~Falsy(res.result.error)
    /\ (stack[1].fn \in Routes /\ LastFailed) =>
         /\ res.status >= 400
         /\ res.result.data = Null /\ ~Falsy(res.result.error)

\* the express route could not be created and the dashboard answered 200
C20_FailedCreateAnswered200 ==
  /\ Responded /\ stack[1].fn = "postExpressRouteCreate"
  /\ Len(net) = 1 /\ ~net[1].ok /\ net[1].method = "POST"
  /\ stack[1].l.res.status = 200
  /\ stack[1].l.res.result = [data |-> Null, error |-> Undefined]

(***************************************************************************)
(* Properties of the entry points                                          *)
(***************************************************************************)
\* C21 as stated: when the main CLI has ended and a required argument was
\* missing or the command's last remote request failed, the exit code is not 0.
C21_FailureExitsNonZero ==
  Done("main") =>
    ((mainMissingArgument(Top.l.args) \/ LastFailed) => Top.l.exitCode # 0)

\* the balance command ended with exit code 0 after both balance requests failed
C21_FailedBalanceExitsZero ==
  /\ Done("main") /\ Top.l.args = <<"balance">>
  /\ Len(net) = 2 /\ ~net[1].ok /\ ~net[2].ok
  /\ Top.l.exitCode = 0

\* C22 as stated: no request is sent to the remote API with an empty credential.
C22_NoRequestWithoutCredential ==
  \A i \in 1..Len(net) : net[i].authorization # "Bearer "

\* GET /api/balance was answered after a request sent with no credential
C22_DashboardSendsEmptyCredential ==
  /\ Done("getApiBalance") /\ apiKey = ""
  /\ Len(net) >= 1 /\ net[1].authorization = "Bearer "

\* the main CLI without a credential exits 1 and sends nothing
C22_CliStopsWithoutCredential ==
  (Done("main") /\ apiKey = "") => (Top.l.exitCode = 1 /\ net = <<>>)

(***************************************************************************)
(* Further properties of the client's fallbacks                            *)
(***************************************************************************)
\* exchange x was answered with HTTP status `status`
AnsweredWith(x, status) == ~x.ok /\ StartsWith(x.message, ApiMsg(status, ""))

\* C23 as stated: getBalance, listDepositAddresses, listDeposits and
\* getDeposit issue their second request exactly when the first was answered
\* with HTTP status 404.
C23_SecondaryOnlyOn404 ==
  \A fn \in {"getBalance", "listDepositAddresses", "listDeposits", "getDeposit"} :
    (Done(fn) /\ Len(net) >= 1) => (Len(net) = 2 <=> AnsweredWith(net[1], 404))

\* listDeposits requested the secondary endpoint after a 500 whose payload
\* mentions 404
C23_FallbackAfter500 ==
  /\ Done("listDeposits") /\ Len(net) = 2
  /\ AnsweredWith(net[1], 500) /\ Includes(net[1].message, "404")

\* getBalance requested the secondary endpoint after a network failure
C23_BalanceFallbackAfterAnyError ==
  /\ Done("getBalance") /\ Len(net) = 2
  /\ net[1].message = FetchFailedMsg

(***************************************************************************)
(* Further properties of the express-route tester                          *)
(***************************************************************************)
\* linkBankAccount returned a listed bank instead of the one it tried to create
SubstitutedBank ==
  /\ Done("linkBankAccount") /\ Len(net) = 2
  /\ ~net[1].ok /\ net[2].ok /\ net[2].val.items # <<>>
  /\ ret = Ok(Json(net[2].val.items[1]))

\* C24 as stated: linkBankAccount returns an existing bank account in place of
\* the one it was asked to create only when the create request was answered
\* with a duplicate/already-exists error.
C24_SubstitutesOnlyOnDuplicate ==
  SubstitutedBank => IsDuplicate([message |-> net[1].message])

\* an existing bank is returned after the create was rejected as invalid
\* (HTTP 400)
C24_SubstitutedAfterValidationError ==
  /\ SubstitutedBank
  /\ AnsweredWith(net[1], 400) /\ Includes(net[1].message, "Invalid entity")

\* the message runFullFlow rejects with when exchange i is the failure of a
\* required step, or "" when it is not: a failed wire-instructions, mock wire
\* (non-duplicate), transfer or payout request, a bank obtained without an id,
\* a deposit address obtained without an address
RequiredFailure(i) ==
  LET x == net[i]
      p == Position(x)
      picked == IF p = 2 THEN First(x.val.items)
                ELSE linkReceiptAddressPick(x.val.items, stack[1].l.chain)
  IN
  IF ~x.ok
  THEN IF p \in {5, 8, 9} \/ (p = 6 /\ ~IsDuplicate([message |-> x.message]))
       THEN x.message ELSE ""
  ELSE IF p = 1 /\ Falsy(x.val.data.id) THEN "Failed to obtain bank account ID"
  ELSE IF p = 2 /\ picked # NoRec /\ Falsy(picked.id) THEN "Failed to obtain bank account ID"
  ELSE IF p = 3 /\ Falsy(x.val.data.address) THEN "Failed to obtain deposit address"
  ELSE IF p = 4 /\ picked # NoRec /\ Falsy(picked.address)
  THEN "Failed to obtain deposit address"
  ELSE ""

\* C25: when a required step of runFullFlow fails, no request of a later step
\* is issued and runFullFlow rejects with the error of that step.
C25_RequiredFailureAborts ==
  InFlow =>
    \A i \in 1..Len(net) :
      RequiredFailure(i) # "" =>
        /\ i = Len(net)
        /\ Done("runFullFlow") =>
             ret.kind = "throw" /\ ret.err.message = RequiredFailure(i)

\* a failed withdrawal ended the flow: no express-route request followed
C25_Witness ==
  /\ Done("runFullFlow") /\ ret.kind = "throw"
  /\ Len(net) >= 5
  /\ Position(net[Len(net)]) = 9 /\ ~net[Len(net)].ok
  /\ ret.err.message = net[Len(net)].message

\* runFullFlow resolved
FlowResolved == Done("runFullFlow") /\ ret.kind = "ok"

\* a request of the given step of the flow was issued
Requested(positions) == \E i \in 1..Len(net) : Position(net[i]) \in positions

\* C26 as stated: every runFullFlow that resolves has issued the request of
\* each of its steps, the on-chain transfer of step 5 included.
C26_ResolvedFlowRanEveryStep ==
  FlowResolved =>
    /\ Requested({5}) /\ Requested({6}) /\ Requested({7})
    /\ Requested({8}) /\ Requested({9}) /\ Requested({10})

\* a flow started with chain and amount only, as POST /api/express-route/run
\* starts it, resolved without a transfer request
C26_RunAllStepsSkipsTransfer ==
  /\ FlowResolved
  /\ stack[1].l.params.existingBankId = Undefined
  /\ stack[1].l.params.existingDepositAddressId = Undefined
  /\ stack[1].l.params.existingRecipientId = Undefined
  /\ ~Requested({8})
  /\ Requested({9}) /\ Requested({10})

\* an express route for the flow's receipt address is known to exist: the
\* create request succeeded, or the listing holds a route of that address
RouteExists ==
  \E i \in 1..Len(net) :
    /\ net[i].ok
    /\ \/ Position(net[i]) = 10
       \/ /\ Position(net[i]) = 11
          /\ \E k \in 1..Len(net[i].val.items) :
               net[i].val.items[k].receiptAddressId = stack[1].l.depositAddressId

\* C27 as stated: whenever runFullFlow resolves, the create-express-route
\* request succeeded or a matching existing route was found.
C27_ResolvedFlowHasRoute == FlowResolved => RouteExists

\* runFullFlow resolved although the create-express-route request failed and
\* no route was listed
C27_ResolvedWithoutRoute ==
  /\ FlowResolved
  /\ Position(net[Len(net)]) = 10 /\ ~net[Len(net)].ok

\* runFullFlow resolved with a listed route of another receipt address
C27_ResolvedWithForeignRoute ==
  /\ FlowResolved /\ ~RouteExists
  /\ Position(net[Len(net)]) = 11 /\ net[Len(net)].ok
  /\ net[Len(net)].val.items # <<>>

(***************************************************************************)
(* Further properties of overlapping dashboard API requests                *)
(***************************************************************************)
\* every request that entered run() has left it
AllRunsDone == runs # <<>> /\ \A r \in 1..Len(runs) : runs[r].pc = "done"

\* C28 as stated: once every in-flight request has completed, the console
\* functions are the original ones and no finished request's logs have grown
\* since it returned them.
C28_ConsoleRestored ==
  AllRunsDone =>
    /\ console = 0
    /\ \A r \in 1..Len(runs) : runs[r].logs = runs[r].result

\* both requests have completed and the capture function of the first is
\* still installed
C28_CaptureStaysInstalled ==
  /\ AllRunsDone /\ Len(runs) = 2
  /\ console = 1

(***************************************************************************)
(* Further properties of runFullFlow                                       *)
(***************************************************************************)
\* C29 as stated: the receiptAddressId of runFullFlow's create-express-route
\* request is a defined identifier, and it is the caller's
\* existingDepositAddressId whenever the caller supplied one.
C29_ReceiptAddressIdKept ==
  InFlow =>
    \A i \in 1..Len(net) :
      Position(net[i]) = 10 =>
        /\ ~Falsy(net[i].body.receiptAddressId)
        /\ ~Falsy(stack[1].l.params.existingDepositAddressId) =>
             net[i].body.receiptAddressId = stack[1].l.params.existingDepositAddressId

\* the caller supplied the id without the address; step 2 ran and the route
\* was requested for the id step 2 returned
C29_SuppliedIdReplaced ==
  /\ InFlow /\ Len(net) >= 1
  /\ stack[1].l.params.existingDepositAddressId = "da7"
  /\ Falsy(stack[1].l.params.existingDepositAddress)
  /\ Position(net[Len(net)]) = 10
  /\ net[Len(net)].body.receiptAddressId # "da7"
  /\ \E j \in 1..Len(net) :
       /\ Position(net[j]) = 3 /\ net[j].ok
       /\ net[Len(net)].body.receiptAddressId = net[j].val.data.id

(***************************************************************************)
(* Specification of repeated runs of runTestFlow                           *)
(***************************************************************************)
NextRuns ==
  \/ runTestFlow_rerun
  \/ runTestFlow_step1
  \/ checkBalance_start \/ getBalance_primary \/ getBalance_secondary \/ checkBalance_ret
  \/ runTestFlow_step2 \/ tester_request \/ runTestFlow_address_ret
  \/ runTestFlow_step3

SpecRuns == InitFlow /\ [][NextRuns]_vars

InRuns == stack # <<>> /\ stack[1].fn = "runTestFlow"

IsAddressCreate(x) ==
  x.method = "POST" /\ x.endpoint = "/v1/businessAccount/wallets/addresses/deposit"
IsAddressList(x) ==
  x.method = "GET" /\ x.endpoint = "/v1/businessAccount/wallets/addresses/deposit"

\* a create-deposit-address request is among the exchanges n
CreatesAddress(n) == \E i \in 1..Len(n) : IsAddressCreate(n[i])

\* C30 as stated: over a sequence of runs of runTestFlow for the same chain at
\* most one create-deposit-address request is issued.
C30_AtMostOneCreateRequest ==
  (InRuns /\ calls >= 2) => ~(CreatesAddress(prev.net) /\ CreatesAddress(net))

\* C30 as amended: a run issues a create-deposit-address request only right
\* after a listing that holds no address of the requested chain; and a run
\* that follows a run which ended holding a deposit address with an id (found
\* or created) issues no create request and uses that same address. A run
\* whose create request failed leaves nothing to reuse, and the next run
\* creates again.
C30_CreatesOnlyWhenNoneListed ==
  InRuns =>
    /\ \A i \in 1..Len(net) :
         IsAddressCreate(net[i]) =>
           /\ i >= 2 /\ IsAddressList(net[i - 1]) /\ net[i - 1].ok
           /\ \A k \in 1..Len(net[i - 1].val.items) :
                net[i - 1].val.items[k].chain # Blockchain(stack[1].l)
           /\ net[i].body.chain = Blockchain(stack[1].l)
    /\ (calls >= 2 /\ prev.l.depositAddress.id # Undefined) =>
         /\ ~CreatesAddress(net)
         /\ stack[1].l.depositAddress \in {NoRec, prev.l.depositAddress}

\* the first run created the address, the second run listed it and used it
\* without a create request
C30_Witness ==
  /\ InRuns /\ calls = 2 /\ Done("runTestFlow") /\ ret.kind = "ok"
  /\ CreatesAddress(prev.net)
  /\ prev.l.depositAddress.id # Undefined
  /\ ~CreatesAddress(net)
  /\ stack[1].l.depositAddress = prev.l.depositAddress

\* the create request of the first run failed, and the second run issued a
\* create request again
C30_CreatesAgainAfterFailure ==
  /\ InRuns /\ calls = 2
  /\ prev.ret.kind = "throw" /\ CreatesAddress(prev.net)
  /\ ~prev.net[Len(prev.net)].ok /\ IsAddressCreate(prev.net[Len(prev.net)])
  /\ CreatesAddress(net)

====
